---- MODULE Spec2Model ----
(***************************************************************************)
(* A model of the Arkanoid clone of this repository: the final version's   *)
(* entity store (src/src/manager.hpp), its entities (ball, brick, paddle,  *)
(* bullet, lives) and the collision resolver (utility.hpp).                *)
(*                                                                         *)
(* Coordinates are the window's pixel coordinates.  The code holds them in *)
(* floats; every position, size and velocity the model uses is a whole     *)
(* number far below 2^24, where float arithmetic is exact, so integers     *)
(* stand for them.                                                         *)
(*                                                                         *)
(* An entity is identified by the object the store constructed for it:     *)
(* ids are handed out in construction order and never reused, so an id is  *)
(* both the pointer the containers hold and the entity's creation stamp.   *)
(***************************************************************************)
EXTENDS Integers, Sequences, FiniteSets, TLC

VARIABLES
    entities,          \* Manager::entities, the owning vector (ids, in order)
    groupedEntities,   \* Manager::groupedEntities, hash code -> vector of ids
    heap,              \* the objects behind the ids
    nextId,            \* the number of entities constructed so far, plus one
    passes,            \* the number of Manager::update passes run so far
    op,                \* the call that returned last: name, arguments, result
    pc,                \* Game's threads: the code each of them is executing
    block,             \* the block of the engine loop the main thread is in
    mtx,               \* Game::mtx: the thread that owns it, or "none"
    AImtx,             \* Game::AImtx: the thread that owns it, or "none"
    readyForupdate,    \* Game::readyForupdate
    updateDone,        \* Game::updateDone
    state,             \* Game::state
    ifGamePaused,      \* Game::ifGamePaused
    timeSeconds,       \* Game::timeSeconds, the countdown
    totalLives,        \* Manager::totalLives
    gamescore,         \* Game::gamescore
    frames,            \* the number of frames the engine loop has started
    requests,          \* the number of update requests the main thread has made
    version,           \* the program that runs: a tutorial version or "final"
    pausePressedLastFrame,   \* the tutorial Game::pausePressedLastFrame
    remainingLives     \* the tutorial Game::remainingLives (p11)

tutorialVars == <<version, pausePressedLastFrame, remainingLives>>

gameVars == <<pc, block, mtx, AImtx, readyForupdate, updateDone, state,
              ifGamePaused, timeSeconds, totalLives, gamescore, frames, requests,
              version, pausePressedLastFrame, remainingLives>>

vars == <<entities, groupedEntities, heap, nextId, passes, op, pc, block, mtx,
          AImtx, readyForupdate, updateDone, state, ifGamePaused, timeSeconds,
          totalLives, gamescore, frames, requests, version,
          pausePressedLastFrame, remainingLives>>

(***************************************************************************)
(* Bounds of the exploration.                                              *)
(***************************************************************************)
\* create calls explored in a run of the store
MaxCreated == 3
\* update passes explored in a run of the store
MaxPasses == 2
\* frames of a ball held on the paddle explored in a run of the resolver
MaxHolds == 1
\* update passes of a ball in play explored in a run of the ball's frames
MaxBallPasses == 3

(***************************************************************************)
(* Program constants.                                                      *)
(***************************************************************************)
wndWidth == 800
wndHeight == 600
BallDefRadius == 5
BulletDefRadius == 5
BulletDefVelocity == 10
BrickDefWidth == 60
BrickDefHeight == 20
BrickDefVelocity == 4
PaddleDefWidth == 100
PaddleDefHeight == 10
PaddleDefVelocity == 8

Types == {"Ball", "Brick", "Paddle", "Bullet", "lives"}
\* the keys the entities poll; a keyboard state is the set of keys held down
Keys == {"Left", "Right"}

Abs(v) == IF v < 0 THEN -v ELSE v

RECURSIVE SeqToSet(_)
SeqToSet(s) == IF s = <<>> THEN {} ELSE {Head(s)} \cup SeqToSet(Tail(s))

(***************************************************************************)
(* Entities.  Entity gives every object destroyed, updateRequired and      *)
(* stagecount; the concrete classes add the shape and their own fields.    *)
(* A slot of the heap whose object has been released holds Freed.          *)
(***************************************************************************)
Freed == [type |-> "freed", destroyed |-> FALSE, updateRequired |-> TRUE]

\* variant: Bullet's hash code collides with Ball's
hash_code_collide(T) ==
    CASE T = "Ball" -> 1 [] T = "Brick" -> 2 [] T = "Paddle" -> 3
      [] T = "Bullet" -> 1 [] T = "lives" -> 5

\* typeid(T).hash_code(): the key of T's group.  The five classes have five
\* different mangled names and the hash codes the build gives them differ.
hash_code(T) ==
    CASE T = "Ball" -> 1 [] T = "Brick" -> 2 [] T = "Paddle" -> 3
      [] T = "Bullet" -> 4 [] T = "lives" -> 5

HashCodes == {hash_code(T) : T \in Types}

NewBall(mX, mY, updateStatus, xvector, yvector) ==
    [type |-> "Ball", destroyed |-> FALSE, updateRequired |-> updateStatus,
     x |-> mX, y |-> mY, vx |-> xvector, vy |-> yvector]

NewBrick(mX, mY, hits, updateStatus) ==
    [type |-> "Brick", destroyed |-> FALSE, updateRequired |-> updateStatus,
     x |-> mX, y |-> mY, hitsRequired |-> hits, strength |-> hits,
     flingFlag |-> FALSE]

NewPaddle(mX, mY, updateStatus) ==
    [type |-> "Paddle", destroyed |-> FALSE, updateRequired |-> updateStatus,
     x |-> mX, y |-> mY, vx |-> 0, vy |-> 0, lastX |-> mX]

NewBullet(mX, mY, updateStatus) ==
    [type |-> "Bullet", destroyed |-> FALSE, updateRequired |-> updateStatus,
     x |-> mX, y |-> mY]

NewLives(mX, mY, updateStatus) ==
    [type |-> "lives", destroyed |-> FALSE, updateRequired |-> updateStatus,
     x |-> mX, y |-> mY]

(***************************************************************************)
(* Bounding shape traits: Rectangle (brick, paddle) and Circle (ball,      *)
(* bullet).  Widths and heights are even, so width / 2.f is exact.         *)
(***************************************************************************)
width(e) == IF e.type = "Brick" THEN BrickDefWidth ELSE PaddleDefWidth
height(e) == IF e.type = "Brick" THEN BrickDefHeight ELSE PaddleDefHeight
radius(e) == IF e.type = "Ball" THEN BallDefRadius ELSE BulletDefRadius

IsRectangle(e) == e.type \in {"Brick", "Paddle"}

left(e) == IF IsRectangle(e) THEN e.x - width(e) \div 2 ELSE e.x - radius(e)
right(e) == IF IsRectangle(e) THEN e.x + width(e) \div 2 ELSE e.x + radius(e)
top(e) == IF IsRectangle(e) THEN e.y - height(e) \div 2 ELSE e.y - radius(e)
bottom(e) == IF IsRectangle(e) THEN e.y + height(e) \div 2 ELSE e.y + radius(e)

(***************************************************************************)
(* The entities' update methods.                                           *)
(***************************************************************************)
\* Ball::solveBoundCollisions
solveBoundCollisions(b) ==
    LET vx1 == IF left(b) < 0 THEN -b.vx
               ELSE IF right(b) > wndWidth THEN -b.vx ELSE b.vx
        vy1 == IF top(b) < 0 THEN -b.vy
               ELSE IF bottom(b) > wndHeight THEN -b.vy ELSE b.vy
    IN [b EXCEPT !.vx = vx1, !.vy = vy1]

\* Ball::update
BallUpdate(b) ==
    LET c == solveBoundCollisions(b)
    IN [c EXCEPT !.x = c.x + c.vx, !.y = c.y + c.vy]

\* variant: a flung brick stays where it is
BrickUpdate_still(b) ==
    IF b.x < 0 THEN [b EXCEPT !.destroyed = TRUE] ELSE b

\* Brick::update: a flung brick moves by velocityFlig = (-4, -4) (the rotation
\* leaves the position alone); a brick whose centre is left of the window is
\* marked destroyed.
BrickUpdate(b) ==
    LET c == IF b.flingFlag
             THEN [b EXCEPT !.x = b.x - BrickDefVelocity, !.y = b.y - BrickDefVelocity]
             ELSE b
    IN IF c.x < 0 THEN [c EXCEPT !.destroyed = TRUE] ELSE c

\* Paddle::processPlayerInputs
processPlayerInputs(p, keys) ==
    IF "Left" \in keys /\ left(p) > 0 THEN [p EXCEPT !.vx = -PaddleDefVelocity]
    ELSE IF "Right" \in keys /\ right(p) < wndWidth
         THEN [p EXCEPT !.vx = PaddleDefVelocity]
         ELSE [p EXCEPT !.vx = 0]

\* Paddle::update
PaddleUpdate(p, keys) ==
    LET c == processPlayerInputs(p, keys)
    IN [c EXCEPT !.x = c.x + c.vx, !.y = c.y + c.vy]

\* Bullet::update: velocity is {0, -defVelocity}
BulletUpdate(b) == [b EXCEPT !.y = b.y - BulletDefVelocity]

\* lives::update
LivesUpdate(l) == l

\* the virtual call e->update()
EntityUpdate(e, keys) ==
    CASE e.type = "Ball" -> BallUpdate(e)
      [] e.type = "Brick" -> BrickUpdate(e)
      [] e.type = "Paddle" -> PaddleUpdate(e, keys)
      [] e.type = "Bullet" -> BulletUpdate(e)
      [] OTHER -> LivesUpdate(e)

(***************************************************************************)
(* Manager.  A store is [entities, groupedEntities, heap]; each method is  *)
(* an operator from the store it is called on to the store it leaves.      *)
(* groupedEntities maps every hash code to a vector: std::map's operator[] *)
(* gives a key that is absent an empty vector, so no reader can tell an    *)
(* absent key from an empty group.                                         *)
(***************************************************************************)
Store == [entities |-> entities, groupedEntities |-> groupedEntities, heap |-> heap]

EmptyGroups == [k \in HashCodes |-> <<>>]

\* variant: the new pointer goes to the front of its group
create_front(m, T, ptr, obj) ==
    [entities |-> Append(m.entities, ptr),
     groupedEntities |->
         [m.groupedEntities EXCEPT ![hash_code(T)] = <<ptr>> \o @],
     heap |-> (ptr :> obj) @@ m.heap]

\* Manager::create<T>(args...): obj is the object T's constructor builds and
\* ptr the new object's identity
create(m, T, ptr, obj) ==
    [entities |-> Append(m.entities, ptr),
     groupedEntities |->
         [m.groupedEntities EXCEPT ![hash_code(T)] = Append(@, ptr)],
     heap |-> (ptr :> obj) @@ m.heap]

\* variant: erase(it) without the end iterator, which drops one element
EraseDestroyed_first(vector, hp) ==
    LET idx == {i \in 1..Len(vector) : hp[vector[i]].destroyed}
    IN IF idx = {} THEN vector
       ELSE LET k == CHOOSE i \in idx : \A j \in idx : i <= j
            IN SubSeq(vector, 1, k - 1) \o SubSeq(vector, k + 1, Len(vector))

\* variant: an erase that fills the hole with the last element
RECURSIVE EraseDestroyed_swap(_, _)
EraseDestroyed_swap(vector, hp) ==
    LET idx == {i \in 1..Len(vector) : hp[vector[i]].destroyed}
    IN IF idx = {} THEN vector
       ELSE LET k == CHOOSE i \in idx : \A j \in idx : i <= j
                n == Len(vector)
                moved == IF k = n THEN SubSeq(vector, 1, n - 1)
                         ELSE [SubSeq(vector, 1, n - 1) EXCEPT ![k] = vector[n]]
            IN EraseDestroyed_swap(moved, hp)

\* std::remove_if + erase on a vector of pointers: the pointers whose object
\* is not destroyed, in their order
EraseDestroyed(vector, hp) == SelectSeq(vector, LAMBDA ptr : ~hp[ptr].destroyed)

\* the heap once the owning pointers in dropped are gone
Release(hp, dropped) == [p \in DOMAIN hp |-> IF p \in dropped THEN Freed ELSE hp[p]]

\* Manager::refresh
refresh(m) ==
    LET groups == [k \in DOMAIN m.groupedEntities |->
                      EraseDestroyed(m.groupedEntities[k], m.heap)]
        kept == EraseDestroyed(m.entities, m.heap)
    IN [entities |-> kept,
        groupedEntities |-> groups,
        heap |-> Release(m.heap, SeqToSet(m.entities) \ SeqToSet(kept))]

\* variant: groupedEntities.clear() left out
clear_entitiesOnly(m) ==
    [entities |-> <<>>,
     groupedEntities |-> m.groupedEntities,
     heap |-> Release(m.heap, SeqToSet(m.entities))]

\* Manager::clear
clear(m) ==
    [entities |-> <<>>,
     groupedEntities |-> [k \in DOMAIN m.groupedEntities |-> <<>>],
     heap |-> Release(m.heap, SeqToSet(m.entities))]

\* variant: the group without the entities marked destroyed
getAll_live(m, T) ==
    SelectSeq(m.groupedEntities[hash_code(T)], LAMBDA ptr : ~m.heap[ptr].destroyed)

\* Manager::getAll<T>
getAll(m, T) == m.groupedEntities[hash_code(T)]

\* Manager::forEach<T>(mFunc) over the vector getAll<T> returned: mFunc is
\* called on each element in turn (log); the visitor may change the entity it
\* is given, here by marking it destroyed when it is in marks
RECURSIVE forEachFrom(_, _, _, _)
forEachFrom(vector, hp, marks, log) ==
    IF vector = <<>> THEN [heap |-> hp, log |-> log]
    ELSE LET entity == Head(vector)
             hp1 == IF entity \in marks
                    THEN [hp EXCEPT ![entity].destroyed = TRUE] ELSE hp
         IN forEachFrom(Tail(vector), hp1, marks, Append(log, entity))

forEach(m, T, marks) == forEachFrom(getAll(m, T), m.heap, marks, <<>>)

\* Manager::update: every entity of the owning vector, in order, is updated
\* unless its updateRequired flag is set (log: the update calls made)
RECURSIVE updateFrom(_, _, _, _)
updateFrom(vector, hp, keys, log) ==
    IF vector = <<>> THEN [heap |-> hp, log |-> log]
    ELSE LET e == Head(vector)
         IN IF ~hp[e].updateRequired
            THEN updateFrom(Tail(vector),
                            [hp EXCEPT ![e] = EntityUpdate(hp[e], keys)],
                            keys, Append(log, e))
            ELSE updateFrom(Tail(vector), hp, keys, log)

\* variant: the test of updateRequired the other way round
RECURSIVE updateFrom_inverted(_, _, _, _)
updateFrom_inverted(vector, hp, keys, log) ==
    IF vector = <<>> THEN [heap |-> hp, log |-> log]
    ELSE LET e == Head(vector)
         IN IF hp[e].updateRequired
            THEN updateFrom_inverted(Tail(vector),
                                     [hp EXCEPT ![e] = EntityUpdate(hp[e], keys)],
                                     keys, Append(log, e))
            ELSE updateFrom_inverted(Tail(vector), hp, keys, log)

update_inverted(m, keys) == updateFrom_inverted(m.entities, m.heap, keys, <<>>)

update(m, keys) == updateFrom(m.entities, m.heap, keys, <<>>)

(***************************************************************************)
(* The store as a state machine: any sequence of create, mark-destroyed,   *)
(* refresh, clear, forEach and update calls.                               *)
(***************************************************************************)
Call(name, T, ret, log) == [name |-> name, T |-> T, ret |-> ret, log |-> log]

\* the constructor calls Game makes: createEntities' bricks, ball, paddle and
\* lives, the ball of a new life (on the paddle, held until launch) and a
\* bullet.  A brick's x is 68.2 in the code, and plays no part in the store.
CtorCalls(T) ==
    CASE T = "Ball" -> {NewBall(400, 300, FALSE, -2, 2), NewBall(400, 540, TRUE, 2, -2)}
      [] T = "Brick" -> {NewBrick(68, 52, 1, FALSE)}
      [] T = "Paddle" -> {NewPaddle(400, 550, TRUE)}
      [] T = "Bullet" -> {NewBullet(400, 550, FALSE)}
      [] OTHER -> {NewLives(720, 12, FALSE)}

\* the threads Game::run starts, and the one the launch of a ball spawns
Threads == {"main", "update", "timer", "AI", "spawned"}

\* Game::Game: the members' initializers and the constructor's assignments;
\* no thread has been started
GameConstructed ==
    /\ pc = [t \in Threads |-> "none"]
    /\ block = "none"
    /\ mtx = "none"
    /\ AImtx = "none"
    /\ readyForupdate = FALSE
    /\ updateDone = FALSE
    /\ state = "inprocess"
    /\ ifGamePaused = FALSE
    /\ timeSeconds = 0
    /\ totalLives = 3
    /\ gamescore = 0
    /\ frames = 0
    /\ requests = 0
    /\ version = "final"
    /\ pausePressedLastFrame = FALSE
    /\ remainingLives = 0

Init ==
    /\ entities = <<>>
    /\ groupedEntities = EmptyGroups
    /\ heap = <<>>
    /\ nextId = 1
    /\ passes = 0
    /\ op = Call("Manager", "none", 0, <<>>)
    /\ GameConstructed

SetStore(m) ==
    /\ entities' = m.entities
    /\ groupedEntities' = m.groupedEntities
    /\ heap' = m.heap

Create(T, obj) ==
    /\ nextId <= MaxCreated
    /\ SetStore(create(Store, T, nextId, obj))
    /\ nextId' = nextId + 1
    /\ op' = Call("create", T, nextId, <<>>)
    /\ UNCHANGED <<passes, gameVars>>

\* game code sets ent->destroyed = true on an entity of the store
MarkDestroyed(e) ==
    /\ ~heap[e].destroyed
    /\ SetStore([Store EXCEPT !.heap[e].destroyed = TRUE])
    /\ op' = Call("destroy", "none", 0, <<>>)
    /\ UNCHANGED <<nextId, passes, gameVars>>

\* (log: the entities the call dropped from the owning vector)
\* Game launches the ball (startEngineLoop, Space in newlife): the first ball
\* of the group gets velocity (-2, 2) and its updateRequired flag cleared
Launch ==
    /\ getAll(Store, "Ball") # <<>>
    /\ LET b == getAll(Store, "Ball")[1]
       IN /\ SetStore([Store EXCEPT !.heap[b].vx = -2, !.heap[b].vy = 2,
                                    !.heap[b].updateRequired = FALSE])
          /\ op' = Call("launch", "none", 0, <<>>)
    /\ UNCHANGED <<nextId, passes, gameVars>>

Refresh ==
    /\ SetStore(refresh(Store))
    /\ op' = Call("refresh", "none", 0, SelectSeq(entities, LAMBDA p : heap[p].destroyed))
    /\ UNCHANGED <<nextId, passes, gameVars>>

\* (log: the entities the call dropped; ret: how many of them were marked
\* destroyed)
Clear ==
    /\ SetStore(clear(Store))
    /\ op' = Call("clear", "none",
                  Cardinality({p \in SeqToSet(entities) : heap[p].destroyed}),
                  entities)
    /\ UNCHANGED <<nextId, passes, gameVars>>

ForEach(T, marks) ==
    LET r == forEach(Store, T, marks)
    IN /\ SetStore([Store EXCEPT !.heap = r.heap])
       /\ op' = Call("forEach", T, 0, r.log)
       /\ UNCHANGED <<nextId, passes, gameVars>>

Update(keys) ==
    LET r == update(Store, keys)
    IN /\ passes < MaxPasses
       /\ SetStore([Store EXCEPT !.heap = r.heap])
       /\ op' = Call("update", "none", 0, r.log)
       /\ passes' = passes + 1
       /\ UNCHANGED <<nextId, gameVars>>

Next ==
    \/ \E T \in Types : \E obj \in CtorCalls(T) : Create(T, obj)
    \/ \E e \in SeqToSet(entities) : MarkDestroyed(e)
    \/ Refresh
    \/ Clear
    \/ \E T \in Types : \E marks \in SUBSET SeqToSet(getAll(Store, T)) : ForEach(T, marks)

Spec == Init /\ [][Next]_vars

(***************************************************************************)
(* The store under the update thread's passes: entities are created,       *)
(* marked destroyed and refreshed, the held ball is launched, and          *)
(* Manager::update runs with any keyboard state.                           *)
(***************************************************************************)
NextUpdate ==
    \/ \E T \in Types : \E obj \in CtorCalls(T) : Create(T, obj)
    \/ \E e \in SeqToSet(entities) : MarkDestroyed(e)
    \/ Launch
    \/ Refresh
    \/ \E keys \in SUBSET Keys : Update(keys)

SpecUpdate == Init /\ [][NextUpdate]_vars

(***************************************************************************)
(* Collision resolver (utility.hpp).                                       *)
(***************************************************************************)
\* variant: strict comparisons
isIntersecting_open(mA, mB) ==
    /\ right(mA) > left(mB)
    /\ left(mA) < right(mB)
    /\ bottom(mA) > top(mB)
    /\ top(mA) < bottom(mB)

\* isIntersecting<T1, T2>
isIntersecting(mA, mB) ==
    /\ right(mA) >= left(mB)
    /\ left(mA) <= right(mB)
    /\ bottom(mA) >= top(mB)
    /\ top(mA) <= bottom(mB)

\* Brick::isFlying
isFlying(mbrick) == mbrick.flingFlag

\* Brick::flingBrick
flingBrick(mbrick) == [mbrick EXCEPT !.flingFlag = TRUE]

\* variant: the tutorial's brick, destroyed at once when its hits are used up
hitBrick_destroy(mbrick) ==
    LET hit == [mbrick EXCEPT !.hitsRequired = @ - 1]
    IN IF hit.hitsRequired <= 0 THEN [hit EXCEPT !.destroyed = TRUE] ELSE hit

\* --mbrick.hitsRequired; if(!mbrick.hitsRequired) mbrick.flingBrick();
hitBrick(mbrick) ==
    LET hit == [mbrick EXCEPT !.hitsRequired = @ - 1]
    IN IF hit.hitsRequired = 0 THEN flingBrick(hit) ELSE hit

\* the four overlaps of solveBallBrickCollision and what it derives from them
overlapLeft(mbrick, mball) == right(mball) - left(mbrick)
overlapRight(mbrick, mball) == right(mbrick) - left(mball)
overlapTop(mbrick, mball) == bottom(mball) - top(mbrick)
overlapBottom(mbrick, mball) == bottom(mbrick) - top(mball)

ballFromLeft(mbrick, mball) ==
    Abs(overlapLeft(mbrick, mball)) < Abs(overlapRight(mbrick, mball))
ballFromTop(mbrick, mball) ==
    Abs(overlapTop(mbrick, mball)) < Abs(overlapBottom(mbrick, mball))

minOverlapX(mbrick, mball) ==
    IF ballFromLeft(mbrick, mball) THEN overlapLeft(mbrick, mball)
    ELSE overlapRight(mbrick, mball)
minOverlapY(mbrick, mball) ==
    IF ballFromTop(mbrick, mball) THEN overlapTop(mbrick, mball)
    ELSE overlapBottom(mbrick, mball)

\* variant: <= for <
horizontalAxis_le(mbrick, mball) ==
    Abs(minOverlapX(mbrick, mball)) <= Abs(minOverlapY(mbrick, mball))

\* the test that picks the branch: if(std::abs(minOverlapX) < std::abs(minOverlapY))
horizontalAxis(mbrick, mball) ==
    Abs(minOverlapX(mbrick, mball)) < Abs(minOverlapY(mbrick, mball))

\* variant: without the isFlying test
solveBallBrickCollision_noFlyingTest(mbrick, mball) ==
    IF ~isIntersecting(mbrick, mball)
    THEN [brick |-> mbrick, ball |-> mball, path |-> "apart"]
    ELSE IF horizontalAxis(mbrick, mball)
         THEN [brick |-> hitBrick(mbrick),
               ball |-> [mball EXCEPT !.vx = IF ballFromLeft(mbrick, mball)
                                             THEN @ ELSE -@],
               path |-> "x"]
         ELSE [brick |-> hitBrick(mbrick),
               ball |-> [mball EXCEPT !.vy = IF ballFromTop(mbrick, mball)
                                             THEN @ ELSE -@],
               path |-> "y"]

\* solveBallBrickCollision(mbrick, mball): the brick and the ball it leaves,
\* and the path taken: "flying" and "apart" are the two early exits, "x" and
\* "y" the branch that set velocity.x or velocity.y (the beep is not modelled)
solveBallBrickCollision(mbrick, mball) ==
    IF isFlying(mbrick)
    THEN [brick |-> mbrick, ball |-> mball, path |-> "flying"]
    ELSE IF ~isIntersecting(mbrick, mball)
         THEN [brick |-> mbrick, ball |-> mball, path |-> "apart"]
         ELSE IF horizontalAxis(mbrick, mball)
              THEN [brick |-> hitBrick(mbrick),
                    ball |-> [mball EXCEPT !.vx = IF ballFromLeft(mbrick, mball)
                                                  THEN @ ELSE -@],
                    path |-> "x"]
              ELSE [brick |-> hitBrick(mbrick),
                    ball |-> [mball EXCEPT !.vy = IF ballFromTop(mbrick, mball)
                                                  THEN @ ELSE -@],
                    path |-> "y"]

\* variant: without the isIntersecting test
solvePaddleBallCollision_noTest(mpaddle, mball) ==
    [mball EXCEPT !.vy = -Abs(mball.vy),
                  !.vx = IF mball.x < mpaddle.x THEN -Abs(mball.vx) ELSE mball.vx]

\* variant: <= for < in the test of the two centres
solvePaddleBallCollision_le(mpaddle, mball) ==
    IF ~isIntersecting(mpaddle, mball) THEN mball
    ELSE [mball EXCEPT !.vy = -Abs(mball.vy),
                       !.vx = IF mball.x <= mpaddle.x THEN -Abs(mball.vx)
                              ELSE mball.vx]

\* solvePaddleBallCollision(mpaddle, mball): the ball it leaves (the paddle is
\* const).  abs is called unqualified on a float: the build resolves it to
\* std::abs(float) or to ::abs(int), which truncates; the ball's velocity
\* components are whole numbers wherever the code sets them (2, 8, 0 and
\* their negations), and on whole numbers the two agree.
solvePaddleBallCollision(mpaddle, mball) ==
    IF ~isIntersecting(mpaddle, mball) THEN mball
    ELSE [mball EXCEPT !.vy = -Abs(mball.vy),
                       !.vx = IF mball.x < mpaddle.x THEN -Abs(mball.vx)
                              ELSE mball.vx]

\* variant: the bullet is used up only by the hit that flings the brick
solveBrickBulletCollision_keepBullet(mbrick, mbullet) ==
    IF ~isIntersecting(mbrick, mbullet)
    THEN [brick |-> mbrick, bullet |-> mbullet]
    ELSE [brick |-> hitBrick(mbrick),
          bullet |-> [mbullet EXCEPT !.destroyed = hitBrick(mbrick).flingFlag]]

\* solveBrickBulletCollision(mbrick, mbullet): the brick and the bullet it
\* leaves.  There is no isFlying test here.
solveBrickBulletCollision(mbrick, mbullet) ==
    IF ~isIntersecting(mbrick, mbullet)
    THEN [brick |-> mbrick, bullet |-> mbullet]
    ELSE [brick |-> hitBrick(mbrick),
          bullet |-> [mbullet EXCEPT !.destroyed = TRUE]]

\* Ball::solveBallPaddleRelativeMotion: the ball held on the paddle follows the
\* keys
solveBallPaddleRelativeMotion(b, keys) ==
    LET c == IF "Left" \in keys /\ left(b) > 0
             THEN [b EXCEPT !.vx = -8, !.vy = 0]
             ELSE IF "Right" \in keys /\ right(b) < wndWidth
                  THEN [b EXCEPT !.vx = 8]
                  ELSE [b EXCEPT !.vx = 0, !.vy = 0]
    IN [c EXCEPT !.x = c.x + c.vx, !.y = c.y + c.vy]

(***************************************************************************)
(* The resolver as a state machine.  The store holds one brick, one ball,  *)
(* one paddle and one bullet, created as Game creates them, at positions   *)
(* around the brick: apart from it on either axis, touching it, inside it. *)
(* The resolver functions are then called on them in any order, as the     *)
(* engine loop does frame after frame, with refresh between the calls.     *)
(***************************************************************************)
\* the brick of the spec's worked example: edges 70, 130, 90, 110
BrickAt == <<100, 100>>
\* hits of createEntities' two kinds of brick
BrickHits == {1, 3}
\* ball centres: one pixel apart from the brick, touching it, one pixel inside,
\* well inside and at its centre line
BallXs == {64, 65, 66, 95, 105, 135, 136}
BallYs == {84, 85, 86, 100, 105, 115, 116}
\* the ball's velocities in play: (-2, 2) at the start, its reflections after
BallVelocities == {-2, 2}
\* the paddle touching the brick from below, its centre under one of the
\* ball's centres, and apart from the brick on both axes
PaddleAt == {<<105, 115>>, <<181, 116>>}
\* the bullet touching the brick from below, and one pixel apart
BulletAt == {<<100, 115>>, <<100, 116>>}

InitResolver ==
    \E hits \in BrickHits, bx \in BallXs, by \in BallYs,
       vx \in BallVelocities, vy \in BallVelocities,
       pp \in PaddleAt, up \in BulletAt :
        LET m0 == [entities |-> <<>>, groupedEntities |-> EmptyGroups, heap |-> <<>>]
            m1 == create(m0, "Brick", 1, NewBrick(BrickAt[1], BrickAt[2], hits, FALSE))
            m2 == create(m1, "Ball", 2, NewBall(bx, by, FALSE, vx, vy))
            m3 == create(m2, "Paddle", 3, NewPaddle(pp[1], pp[2], TRUE))
            m4 == create(m3, "Bullet", 4, NewBullet(up[1], up[2], FALSE))
        IN /\ entities = m4.entities
           /\ groupedEntities = m4.groupedEntities
           /\ heap = m4.heap
           /\ nextId = 5
           /\ passes = 0
           /\ op = Call("Manager", "none", 0, <<>>)
           /\ GameConstructed

\* isIntersecting(a, b) on two entities with a shape (ret: the result)
IsIntersecting(a, b) ==
    /\ a # b
    /\ op' = Call("isIntersecting", "none", isIntersecting(heap[a], heap[b]), <<a, b>>)
    /\ UNCHANGED <<entities, groupedEntities, heap, nextId, passes, gameVars>>

\* solveBallBrickCollision(mBrick, mBall), as the engine loop calls it for
\* every ball and brick of the store (ret: the path taken)
SolveBallBrickCollision(mbrick, mball) ==
    LET r == solveBallBrickCollision(heap[mbrick], heap[mball])
    IN /\ SetStore([Store EXCEPT !.heap[mbrick] = r.brick, !.heap[mball] = r.ball])
       /\ op' = Call("solveBallBrickCollision", "none", r.path, <<mbrick, mball>>)
       /\ UNCHANGED <<nextId, passes, gameVars>>

\* solvePaddleBallCollision(mPaddle, mball), as the engine loop calls it for
\* every ball and paddle of the store (ret: the ball's velocity before)
SolvePaddleBallCollision(mpaddle, mball) ==
    /\ SetStore([Store EXCEPT
                    !.heap[mball] = solvePaddleBallCollision(heap[mpaddle], heap[mball])])
    /\ op' = Call("solvePaddleBallCollision", "none",
                  <<heap[mball].vx, heap[mball].vy>>, <<mpaddle, mball>>)
    /\ UNCHANGED <<nextId, passes, gameVars>>

\* solveBrickBulletCollision(mbrick, mbullet), as the engine loop calls it for
\* every brick and bullet of the store, once in a frame; the frame's refresh
\* drops a bullet marked destroyed, so that no later frame passes it again
\* (ret: the brick's hitsRequired before)
SolveBrickBulletCollision(mbrick, mbullet) ==
    LET r == solveBrickBulletCollision(heap[mbrick], heap[mbullet])
    IN /\ ~heap[mbullet].destroyed
       /\ SetStore([Store EXCEPT !.heap[mbrick] = r.brick, !.heap[mbullet] = r.bullet])
       /\ op' = Call("solveBrickBulletCollision", "none",
                     heap[mbrick].hitsRequired, <<mbrick, mbullet>>)
       /\ UNCHANGED <<nextId, passes, gameVars>>

\* a frame of the newlife state: solveBallPaddleRelativeMotion on the first
\* ball of the store (passes counts these frames here)
SolveBallPaddleRelativeMotion(keys) ==
    /\ passes < MaxHolds
    /\ getAll(Store, "Ball") # <<>>
    /\ LET b == getAll(Store, "Ball")[1]
       IN /\ SetStore([Store EXCEPT
                          !.heap[b] = solveBallPaddleRelativeMotion(heap[b], keys)])
          /\ op' = Call("solveBallPaddleRelativeMotion", "none", 0, <<b>>)
    /\ passes' = passes + 1
    /\ UNCHANGED <<nextId, gameVars>>

Shaped == {p \in SeqToSet(entities) : heap[p].type \in {"Brick", "Ball", "Paddle", "Bullet"}}

NextResolver ==
    \/ \E a \in Shaped, b \in Shaped : IsIntersecting(a, b)
    \/ \E mball \in SeqToSet(getAll(Store, "Ball")) :
          \E mbrick \in SeqToSet(getAll(Store, "Brick")) :
              SolveBallBrickCollision(mbrick, mball)
    \/ \E mball \in SeqToSet(getAll(Store, "Ball")) :
          \E mpaddle \in SeqToSet(getAll(Store, "Paddle")) :
              SolvePaddleBallCollision(mpaddle, mball)
    \/ \E mbrick \in SeqToSet(getAll(Store, "Brick")) :
          \E mbullet \in SeqToSet(getAll(Store, "Bullet")) :
              SolveBrickBulletCollision(mbrick, mbullet)
    \/ \E keys \in SUBSET Keys : SolveBallPaddleRelativeMotion(keys)
    \/ Refresh

SpecResolver == InitResolver /\ [][NextResolver]_vars


(***************************************************************************)
(* Game (game.hpp).  Game::run starts four threads: the main engine loop,  *)
(* the update thread, the countdown timer and the AI; the launch of a ball *)
(* spawns a fifth, which changes the game state after a delay.  A thread's *)
(* pc names the stretch of code it is executing; the step that leaves a    *)
(* stretch applies the stretch's effect.                                   *)
(***************************************************************************)
\* frames of the engine loop explored in a run of the threads
MaxFrames == 2
\* seconds of the countdown explored in a run of the threads
MaxTicks == 1

\* timeSeconds = 1000 in Game::restart
RestartSeconds == 1000

\* Manager::checkBallDropped<Ball>
checkBallDropped(m) ==
    LET vector == getAll(m, "Ball")
    IN IF Len(vector) = 1 THEN bottom(m.heap[vector[1]]) > wndHeight ELSE FALSE

\* Manager::getSingleEntity<T>: vector[0] of T's group
getSingleEntity(m, T) == getAll(m, T)[1]

\* Manager::handleBallDrop: the first ball is marked destroyed, and so is the
\* last lives entity that is not marked yet
handleBallDrop(m) ==
    LET ballentity == getSingleEntity(m, "Ball")
        vector == getAll(m, "lives")
        unmarked == {i \in 1..Len(vector) : ~m.heap[vector[i]].destroyed}
        hp == [m.heap EXCEPT ![ballentity].destroyed = TRUE]
    IN IF unmarked = {} THEN [m EXCEPT !.heap = hp]
       ELSE LET last == CHOOSE i \in unmarked : \A j \in unmarked : j <= i
            IN [m EXCEPT !.heap = [hp EXCEPT ![vector[last]].destroyed = TRUE]]

\* Paddle::movePaddlePosition(mX, mY): when lastPosition.x differs from mX
\* the paddle walks one pixel at a time, to the right if lastPosition.x < mX
\* and to the left if not, until its x is mX.  The walk ends if mX lies on
\* that side of the paddle.
walkEnds(p, mX) ==
    \/ p.lastX = mX
    \/ IF p.lastX < mX THEN p.x <= mX ELSE p.x >= mX

\* the paddle after a walk that ends
movePaddlePosition(p, mX) ==
    IF p.lastX # mX THEN [p EXCEPT !.x = mX, !.lastX = mX] ELSE p

\* the x Manager::predictedPaddlePosition sends the first paddle to: where
\* the first ball, if it moves down and sideways, meets the line y = 550,
\* five pixels short of it, as a set that is empty if it sends the paddle
\* nowhere
predictedX(m) ==
    LET ballent == m.heap[getSingleEntity(m, "Ball")]
        toRight == 550 - (ballent.y - ballent.x)
        toLeft == (ballent.y + ballent.x) - 550
    IN IF ballent.vy > 0 /\ ballent.vx > 0 /\ toRight < 800 /\ toRight > 0
       THEN {toRight - 5}
       ELSE IF ballent.vy > 0 /\ ballent.vx < 0 /\ toLeft < 800 /\ toLeft > 0
            THEN {toLeft + 5}
            ELSE {}

\* what predictedPaddlePosition reads in ballent when the store has no ball:
\* the pointer is not initialized, and holds what an earlier call left there:
\* null (the paddle is sent nowhere), or the ball that has been released
\* since, whose memory predicts any x
StaleXs == {5, 351, 795}

\* the sets predictedPaddlePosition may draw the paddle's target from
predictedTargets(m) ==
    IF getAll(m, "Ball") = <<>> THEN {{}} \cup {{mX} : mX \in StaleXs}
    ELSE {predictedX(m)}

\* Manager::predictedPaddlePosition with the target it computed, when the
\* paddle's walk ends
aimPaddle(m, target) ==
    LET padent == getSingleEntity(m, "Paddle")
    IN IF target = {} THEN m
       ELSE [m EXCEPT !.heap[padent] =
                movePaddlePosition(m.heap[padent], CHOOSE mX \in target : TRUE)]

\* Manager::predictedPaddlePosition on a store with a ball
predictedPaddlePosition(m) == aimPaddle(m, predictedX(m))

\* lives' x in createEntities: 720.f + offset, offset += 2 * defRadius + 2
RECURSIVE createLives(_, _, _)
createLives(m, ptr, i) ==
    IF i >= totalLives THEN m
    ELSE createLives(create(m, "lives", ptr, NewLives(720 + 12 * i, 12, FALSE)),
                     ptr + 1, i + 1)

\* Game::createEntities, with the first brick of its grid of 44 (x is 68.2 in
\* the code): brick, ball, paddle and a lives entity for every life
createEntities(m, ptr) ==
    LET m1 == create(m, "Brick", ptr, NewBrick(68, 52, 1, FALSE))
        m2 == create(m1, "Ball", ptr + 1,
                     NewBall(wndWidth \div 2, wndHeight \div 2, FALSE, -2, 2))
        m3 == create(m2, "Paddle", ptr + 2,
                     NewPaddle(wndWidth \div 2, wndHeight - 50, TRUE))
    IN createLives(m3, ptr + 3, 0)

\* Game::restart
restart(m, ptr) == createEntities(clear(m), ptr)

\* the calls mFunc(outer, inner) of two nested forEach loops, in their order
RECURSIVE Nested(_, _)
Nested(outer, inner) ==
    IF outer = <<>> THEN <<>>
    ELSE [i \in 1..Len(inner) |-> <<Head(outer), inner[i]>>]
             \o Nested(Tail(outer), inner)

\* forEach<Ball> of forEach<Brick>: solveBallBrickCollision(mBrick, mBall)
RECURSIVE ballBrickPass(_, _)
ballBrickPass(hp, calls) ==
    IF calls = <<>> THEN hp
    ELSE LET mball == Head(calls)[1]
             mbrick == Head(calls)[2]
             r == solveBallBrickCollision(hp[mbrick], hp[mball])
         IN ballBrickPass([hp EXCEPT ![mbrick] = r.brick, ![mball] = r.ball],
                          Tail(calls))

\* forEach<Ball> of forEach<Paddle>: solvePaddleBallCollision(mPaddle, mball)
RECURSIVE paddleBallPass(_, _)
paddleBallPass(hp, calls) ==
    IF calls = <<>> THEN hp
    ELSE LET mball == Head(calls)[1]
             mpaddle == Head(calls)[2]
         IN paddleBallPass(
                [hp EXCEPT ![mball] = solvePaddleBallCollision(hp[mpaddle], hp[mball])],
                Tail(calls))

\* forEach<Brick> of forEach<Bullet>: solveBrickBulletCollision(mbrick, mbullet)
RECURSIVE brickBulletPass(_, _)
brickBulletPass(hp, calls) ==
    IF calls = <<>> THEN hp
    ELSE LET mbrick == Head(calls)[1]
             mbullet == Head(calls)[2]
             r == solveBrickBulletCollision(hp[mbrick], hp[mbullet])
         IN brickBulletPass([hp EXCEPT ![mbrick] = r.brick, ![mbullet] = r.bullet],
                            Tail(calls))

\* the three collision passes of the inprocess block
collisions(m) ==
    LET hp1 == ballBrickPass(m.heap, Nested(getAll(m, "Ball"), getAll(m, "Brick")))
        hp2 == paddleBallPass(hp1, Nested(getAll(m, "Ball"), getAll(m, "Paddle")))
    IN brickBulletPass(hp2, Nested(getAll(m, "Brick"), getAll(m, "Bullet")))

\* forEach<Brick>: gamescore += brick.strength for every brick marked destroyed
RECURSIVE scored(_, _)
scored(hp, vector) ==
    IF vector = <<>> THEN 0
    ELSE (IF hp[Head(vector)].destroyed THEN hp[Head(vector)].strength ELSE 0)
             + scored(hp, Tail(vector))

\* variant: the wait without its predicate
mayProceed_always(done) == TRUE

\* the predicate of the main thread's updateCV.wait: return updateDone
mayProceed(done) == done

\* the predicate of the update thread's updateCV.wait: return readyForupdate
mayUpdate(ready) == ready

At(t, label) == pc' = [pc EXCEPT ![t] = label]

\* the ball a run of the threads starts with: createEntities' ball, or that
\* ball later, when it has just left the window through the bottom
ThreadBalls == {NewBall(400, 300, FALSE, -2, 2), NewBall(300, 596, FALSE, -2, 2)}

\* the lives a run of the threads starts with: a new game's three, or the
\* last one
ThreadLives == {1, 3}

\* main(): Game game; game.restart(); game.run(), or that game later in play
InitThreads ==
    /\ \E ball \in ThreadBalls, lifes \in ThreadLives :
          LET m0 == [entities |-> <<>>, groupedEntities |-> EmptyGroups, heap |-> <<>>]
              m1 == create(m0, "Brick", 1, NewBrick(68, 52, 1, FALSE))
              m2 == create(m1, "Ball", 2, ball)
              m3 == create(m2, "Paddle", 3, NewPaddle(wndWidth \div 2, wndHeight - 50, TRUE))
              m4 == create(m3, "lives", 4, NewLives(720, 12, FALSE))
              m5 == create(m4, "lives", 5, NewLives(732, 12, FALSE))
              m6 == create(m5, "lives", 6, NewLives(744, 12, FALSE))
              m == IF lifes = 3 THEN m6 ELSE m4
          IN /\ entities = m.entities
             /\ groupedEntities = m.groupedEntities
             /\ heap = m.heap
             /\ nextId = 4 + lifes
             /\ totalLives = lifes
    /\ passes = 0
    /\ op = Call("Game", "none", 0, <<>>)
    /\ pc = [t \in Threads |->
                CASE t = "main" -> "prelude"
                  [] t = "update" -> "acquire"
                  [] t = "timer" -> "sleep"
                  [] t = "AI" -> "acquire"
                  [] OTHER -> "none"]
    /\ block = "none"
    /\ mtx = "none"
    /\ AImtx = "none"
    /\ readyForupdate = FALSE
    /\ updateDone = FALSE
    /\ state = "inprocess"
    /\ ifGamePaused = FALSE
    /\ timeSeconds = RestartSeconds
    /\ gamescore = 0
    /\ frames = 0
    /\ requests = 0
    /\ version = "final"
    /\ pausePressedLastFrame = FALSE
    /\ remainingLives = 0

\* startEngineLoop, the head of a frame (game.hpp 246-284): a dropped ball
\* costs a life and gives a new ball on the paddle, a countdown at zero loses
\* the game, Space in play shoots a bullet
MainPrelude ==
    /\ pc["main"] = "prelude"
    /\ frames < MaxFrames
    /\ \E space \in BOOLEAN :
          LET dropped == checkBallDropped(Store)
              m1 == IF dropped THEN handleBallDrop(Store) ELSE Store
              lives1 == IF dropped THEN totalLives - 1 ELSE totalLives
              state1 == IF dropped
                        THEN (IF 0 >= lives1 THEN "lost" ELSE "newlife")
                        ELSE state
              newBall == dropped /\ 0 < lives1
              pad1 == m1.heap[getSingleEntity(m1, "Paddle")]
              m2 == IF newBall
                    THEN create(m1, "Ball", nextId,
                                NewBall(pad1.x, pad1.y - 2 * BallDefRadius, TRUE, 2, -2))
                    ELSE m1
              ptr2 == IF newBall THEN nextId + 1 ELSE nextId
              state2 == IF timeSeconds = 0 THEN "lost" ELSE state1
              shoot == space /\ state2 = "inprocess"
              pad2 == m2.heap[getSingleEntity(m2, "Paddle")]
              m3 == IF shoot
                    THEN create(m2, "Bullet", ptr2, NewBullet(pad2.x, pad2.y, FALSE))
                    ELSE m2
          IN /\ SetStore(m3)
             /\ nextId' = IF shoot THEN ptr2 + 1 ELSE ptr2
             /\ totalLives' = lives1
             /\ state' = state2
             /\ IF state2 = "newlife"
                THEN block' = "newlife" /\ At("main", "lock")
                ELSE block' = "none" /\ At("main", "mid")
    /\ frames' = frames + 1
    /\ UNCHANGED <<passes, op, mtx, AImtx, readyForupdate, updateDone,
                   ifGamePaused, timeSeconds, gamescore, requests>>
    /\ UNCHANGED tutorialVars

\* Escape at the head of a frame: exit(0) ends the process and its threads
Exit ==
    /\ pc["main"] = "prelude"
    /\ pc' = [t \in Threads |-> "exited"]
    /\ UNCHANGED <<entities, groupedEntities, heap, nextId, passes, op, block, mtx,
                   AImtx, readyForupdate, updateDone, state, ifGamePaused,
                   timeSeconds, totalLives, gamescore, frames, requests>>
    /\ UNCHANGED tutorialVars

\* std::lock_guard<std::mutex> lk(mtx) of a block's request
MainLock ==
    /\ pc["main"] = "lock"
    /\ mtx = "none"
    /\ mtx' = "main"
    /\ At("main", "hold")
    /\ UNCHANGED <<entities, groupedEntities, heap, nextId, passes, op, block,
                   AImtx, readyForupdate, updateDone, state, ifGamePaused,
                   timeSeconds, totalLives, gamescore, frames, requests>>
    /\ UNCHANGED tutorialVars

\* the request, under the lock: the newlife block moves the first ball with
\* the keys, the launch block gives it its velocity and clears its flag, and
\* every block sets readyForupdate; the lock is released at the block's end
MainHold ==
    /\ pc["main"] = "hold"
    /\ \E keys \in SUBSET Keys :
          LET b == getSingleEntity(Store, "Ball")
          IN heap' = CASE block = "newlife" ->
                            [heap EXCEPT ![b] = solveBallPaddleRelativeMotion(heap[b], keys)]
                       [] block = "launch" ->
                            [heap EXCEPT ![b].vx = -2, ![b].vy = 2,
                                         ![b].updateRequired = FALSE]
                       [] OTHER -> heap
    /\ readyForupdate' = TRUE
    /\ requests' = requests + 1
    /\ mtx' = "none"
    /\ At("main", "notify")
    /\ UNCHANGED <<entities, groupedEntities, nextId, passes, op, block, AImtx,
                   updateDone, state, ifGamePaused, timeSeconds, totalLives,
                   gamescore, frames>>
    /\ UNCHANGED tutorialVars

\* variant: a notification that wakes no thread
Notify_lost(t) ==
    /\ pc[t] = "notify"
    /\ At(t, "acquire")
    /\ UNCHANGED <<entities, groupedEntities, heap, nextId, passes, op, block, mtx,
                   AImtx, readyForupdate, updateDone, state, ifGamePaused,
                   timeSeconds, totalLives, gamescore, frames, requests>>
    /\ UNCHANGED tutorialVars

\* updateCV.notify_one() by the main or the update thread: one thread that
\* waits on updateCV, if there is one, is woken and goes for the mutex
Notify(t) ==
    /\ pc[t] = "notify"
    /\ LET waiting == {u \in Threads : pc[u] = "waiting"}
       IN IF waiting = {} THEN At(t, "acquire")
          ELSE \E u \in waiting : pc' = [pc EXCEPT ![t] = "acquire", ![u] = "acquire"]
    /\ UNCHANGED <<entities, groupedEntities, heap, nextId, passes, op, block, mtx,
                   AImtx, readyForupdate, updateDone, state, ifGamePaused,
                   timeSeconds, totalLives, gamescore, frames, requests>>
    /\ UNCHANGED tutorialVars

\* a wait on a condition variable may return without a notification
SpuriousWakeup(t) ==
    /\ pc[t] = "waiting"
    /\ At(t, "acquire")
    /\ UNCHANGED <<entities, groupedEntities, heap, nextId, passes, op, block, mtx,
                   AImtx, readyForupdate, updateDone, state, ifGamePaused,
                   timeSeconds, totalLives, gamescore, frames, requests>>
    /\ UNCHANGED tutorialVars

\* std::unique_lock lk(mtx); updateCV.wait(lk, updateDone); updateDone = false:
\* with the mutex, the main thread goes on if the predicate holds and waits
\* (releasing the mutex) if not.  After the launch block's wait the thread
\* that changes the state is spawned.
MainAcquire ==
    /\ pc["main"] = "acquire"
    /\ mtx = "none"
    /\ IF mayProceed(updateDone)
       THEN /\ updateDone' = FALSE
            /\ pc' = [pc EXCEPT !["main"] = IF block = "inprocess" THEN "collide"
                                            ELSE "refresh",
                                !["spawned"] = IF block = "launch" THEN "sleep" ELSE @]
       ELSE /\ At("main", "waiting")
            /\ UNCHANGED updateDone
    /\ UNCHANGED <<entities, groupedEntities, heap, nextId, passes, op, block, mtx,
                   AImtx, readyForupdate, state, ifGamePaused, timeSeconds,
                   totalLives, gamescore, frames, requests>>
    /\ UNCHANGED tutorialVars

\* the inprocess block's collision passes and score (game.hpp 384-433)
MainCollide ==
    /\ pc["main"] = "collide"
    /\ heap' = collisions(Store)
    /\ gamescore' = gamescore + scored(heap', getAll(Store, "Brick"))
    /\ At("main", "refresh")
    /\ UNCHANGED <<entities, groupedEntities, nextId, passes, op, block, mtx, AImtx,
                   readyForupdate, updateDone, state, ifGamePaused, timeSeconds,
                   totalLives, frames, requests>>
    /\ UNCHANGED tutorialVars

\* manager.refresh() of a block
MainRefresh ==
    /\ pc["main"] = "refresh"
    /\ SetStore(refresh(Store))
    /\ At("main", "draw")
    /\ UNCHANGED <<nextId, passes, op, block, mtx, AImtx, readyForupdate,
                   updateDone, state, ifGamePaused, timeSeconds, totalLives,
                   gamescore, frames, requests>>
    /\ UNCHANGED tutorialVars

\* manager.draw(window); window.display() of a block, and the way on: after
\* the newlife block, Space in the newlife state enters the launch block
MainDraw ==
    /\ pc["main"] = "draw"
    /\ \E space \in BOOLEAN :
          IF block = "newlife" /\ space /\ state = "newlife"
          THEN block' = "launch" /\ At("main", "lock")
          ELSE IF block = "inprocess"
               THEN block' = "none" /\ At("main", "join")
               ELSE block' = "none" /\ At("main", "mid")
    /\ UNCHANGED <<entities, groupedEntities, heap, nextId, passes, op, mtx, AImtx,
                   readyForupdate, updateDone, state, ifGamePaused, timeSeconds,
                   totalLives, gamescore, frames, requests>>
    /\ UNCHANGED tutorialVars

\* game.hpp 338-368: no brick left wins the stage and restarts, P pauses, R
\* resumes
MainMid ==
    /\ pc["main"] = "mid"
    /\ \E p \in BOOLEAN, r \in BOOLEAN :
          LET won == getAll(Store, "Brick") = <<>>
              state1 == IF won THEN "inprocess" ELSE state
              pause == p /\ ~ifGamePaused
              state2 == IF pause THEN "paused" ELSE state1
              paused2 == ifGamePaused \/ pause
              resume == r /\ paused2
          IN /\ SetStore(IF won THEN restart(Store, nextId) ELSE Store)
             /\ nextId' = IF won THEN nextId + 3 + (IF totalLives > 0 THEN totalLives ELSE 0)
                          ELSE nextId
             /\ timeSeconds' = IF won THEN RestartSeconds ELSE timeSeconds
             /\ state' = IF resume THEN "inprocess" ELSE state2
             /\ ifGamePaused' = IF resume THEN FALSE ELSE paused2
    /\ At("main", "test")
    /\ UNCHANGED <<passes, op, block, mtx, AImtx, readyForupdate, updateDone,
                   totalLives, gamescore, frames, requests>>
    /\ UNCHANGED tutorialVars

\* if(state == GameState::inprocess)
MainTest ==
    /\ pc["main"] = "test"
    /\ IF state = "inprocess"
       THEN block' = "inprocess" /\ At("main", "lock")
       ELSE block' = "none" /\ At("main", "join")
    /\ UNCHANGED <<entities, groupedEntities, heap, nextId, passes, op, mtx, AImtx,
                   readyForupdate, updateDone, state, ifGamePaused, timeSeconds,
                   totalLives, gamescore, frames, requests>>
    /\ UNCHANGED tutorialVars

\* if(spawedThread.joinable()) spawedThread.join(), and the next frame
MainJoin ==
    /\ pc["main"] = "join"
    /\ pc["spawned"] \in {"none", "done"}
    /\ pc' = [pc EXCEPT !["main"] = "prelude", !["spawned"] = "none"]
    /\ UNCHANGED <<entities, groupedEntities, heap, nextId, passes, op, block, mtx,
                   AImtx, readyForupdate, updateDone, state, ifGamePaused,
                   timeSeconds, totalLives, gamescore, frames, requests>>
    /\ UNCHANGED tutorialVars

\* changeState(GameState::inprocess), after its delay
SpawnedChangeState ==
    /\ pc["spawned"] = "sleep"
    /\ state' = "inprocess"
    /\ At("spawned", "done")
    /\ UNCHANGED <<entities, groupedEntities, heap, nextId, passes, op, block, mtx,
                   AImtx, readyForupdate, updateDone, ifGamePaused, timeSeconds,
                   totalLives, gamescore, frames, requests>>
    /\ UNCHANGED tutorialVars

\* updateEntities: std::unique_lock lck(mtx); updateCV.wait(lck, readyForupdate);
\* readyForupdate = false: with the mutex, the update thread enters
\* manager.update() if the predicate holds and waits (releasing it) if not
UpdateAcquire ==
    /\ pc["update"] = "acquire"
    /\ mtx = "none"
    /\ IF mayUpdate(readyForupdate)
       THEN /\ readyForupdate' = FALSE
            /\ mtx' = "update"
            /\ At("update", "update")
       ELSE /\ At("update", "waiting")
            /\ UNCHANGED <<readyForupdate, mtx>>
    /\ UNCHANGED <<entities, groupedEntities, heap, nextId, passes, op, block, AImtx,
                   updateDone, state, ifGamePaused, timeSeconds, totalLives,
                   gamescore, frames, requests>>
    /\ UNCHANGED tutorialVars

\* manager.update(); updateDone = true; lck.unlock()
UpdateRun ==
    /\ pc["update"] = "update"
    /\ \E keys \in SUBSET Keys : heap' = update(Store, keys).heap
    /\ passes' = passes + 1
    /\ updateDone' = TRUE
    /\ mtx' = "none"
    /\ At("update", "notify")
    /\ UNCHANGED <<entities, groupedEntities, nextId, op, block, AImtx,
                   readyForupdate, state, ifGamePaused, timeSeconds, totalLives,
                   gamescore, frames, requests>>
    /\ UNCHANGED tutorialVars

\* showTime: the second's sleep is over
TimerWake ==
    /\ pc["timer"] = "sleep"
    /\ timeSeconds > RestartSeconds - MaxTicks
    /\ At("timer", "tick")
    /\ UNCHANGED <<entities, groupedEntities, heap, nextId, passes, op, block, mtx,
                   AImtx, readyForupdate, updateDone, state, ifGamePaused,
                   timeSeconds, totalLives, gamescore, frames, requests>>
    /\ UNCHANGED tutorialVars

\* timeSeconds--; if(timeSeconds == 0) break; textTime.setString(...)
TimerTick ==
    /\ pc["timer"] = "tick"
    /\ timeSeconds' = timeSeconds - 1
    /\ At("timer", IF timeSeconds' = 0 THEN "ended" ELSE "sleep")
    /\ UNCHANGED <<entities, groupedEntities, heap, nextId, passes, op, block, mtx,
                   AImtx, readyForupdate, updateDone, state, ifGamePaused,
                   totalLives, gamescore, frames, requests>>
    /\ UNCHANGED tutorialVars

\* automateGame: std::unique_lock lck(AImtx); AIcv.wait(lck, startAI), where
\* startAI is true and never cleared
AIAcquire ==
    /\ pc["AI"] = "acquire"
    /\ AImtx = "none"
    /\ AImtx' = "AI"
    /\ At("AI", "predict")
    /\ UNCHANGED <<entities, groupedEntities, heap, nextId, passes, op, block, mtx,
                   readyForupdate, updateDone, state, ifGamePaused, timeSeconds,
                   totalLives, gamescore, frames, requests>>
    /\ UNCHANGED tutorialVars

\* manager.predictedPaddlePosition(); lck.unlock().  A walk of the paddle
\* that does not end keeps the thread, and AImtx, for ever.
AIPredict ==
    /\ pc["AI"] = "predict"
    /\ \E target \in predictedTargets(Store) :
          IF \A mX \in target : walkEnds(heap[getSingleEntity(Store, "Paddle")], mX)
          THEN /\ SetStore(aimPaddle(Store, target))
               /\ AImtx' = "none"
               /\ At("AI", "acquire")
          ELSE /\ At("AI", "walking")
               /\ UNCHANGED <<entities, groupedEntities, heap, AImtx>>
    /\ UNCHANGED <<nextId, passes, op, block, mtx, readyForupdate, updateDone,
                   state, ifGamePaused, timeSeconds, totalLives, gamescore, frames,
                   requests>>
    /\ UNCHANGED tutorialVars

NextThreads ==
    \/ MainPrelude
    \/ Exit
    \/ MainLock
    \/ MainHold
    \/ \E t \in {"main", "update"} : Notify(t)
    \/ \E t \in {"main", "update"} : SpuriousWakeup(t)
    \/ MainAcquire
    \/ MainCollide
    \/ MainRefresh
    \/ MainDraw
    \/ MainMid
    \/ MainTest
    \/ MainJoin
    \/ SpawnedChangeState
    \/ UpdateAcquire
    \/ UpdateRun
    \/ TimerWake
    \/ TimerTick
    \/ AIAcquire
    \/ AIPredict

SpecThreads == InitThreads /\ [][NextThreads]_vars

\* UpdateRun as pc shows it: the update thread leaves manager.update()
UpdateRunStep == pc["update"] = "update" /\ At("update", "notify")

\* the threads under a fair scheduler: a thread that can take the step of
\* the handshake it is at takes it.  Nothing is asked of the keys, of Escape,
\* of a spurious wake-up, or of the timer and the AI.
SpecThreadsFair ==
    /\ InitThreads
    /\ [][NextThreads]_vars
    /\ WF_vars(Notify("main"))
    /\ WF_vars(MainAcquire)
    /\ WF_vars(UpdateAcquire)
    /\ WF_pc(UpdateRunStep)
    /\ WF_vars(Notify("update"))


(***************************************************************************)
(* The tutorial versions p09, p10 and p11 (src/code): a single-threaded    *)
(* Game whose run loop polls the keys, updates the entities, resolves the  *)
(* collisions and removes the destroyed entities once a frame.  The        *)
(* tutorial's entities have no updateRequired flag (it is FALSE here), its *)
(* ball and paddle have their own sizes and a ball's velocity components   *)
(* are always +-defVelocity.  p09 keeps ball, paddle and bricks in members *)
(* of Game; they are held in the store's containers here, as in p10.       *)
(***************************************************************************)
\* frames of the tutorial's run loop explored in a run
MaxTutorialFrames == 4

TutorialVersions == {"p09", "p10", "p11"}

\* Ball::defRadius, Ball::defVelocity, Paddle::defWidth, defHeight,
\* defVelocity, Brick::defWidth, defHeight of the tutorial
TutorialBallDefRadius == 10
TutorialBallDefVelocity == 8
TutorialPaddleDefWidth == 60
TutorialPaddleDefHeight == 20
TutorialPaddleDefVelocity == 8
TutorialBrickDefWidth == 60
TutorialBrickDefHeight == 20

\* Ball{mX, mY}: velocity{-defVelocity, -defVelocity}
TutorialBall(mX, mY) ==
    NewBall(mX, mY, FALSE, -TutorialBallDefVelocity, -TutorialBallDefVelocity)

\* Paddle{mX, mY}
TutorialPaddle(mX, mY) == NewPaddle(mX, mY, FALSE)

\* Brick{mX, mY} and its requiredHits
TutorialBrick(mX, mY, hits) == NewBrick(mX, mY, hits, FALSE)

\* the tutorial's Circle and Rectangle
tutorialHalfWidth(e) ==
    CASE e.type = "Ball" -> TutorialBallDefRadius
      [] e.type = "Paddle" -> TutorialPaddleDefWidth \div 2
      [] OTHER -> TutorialBrickDefWidth \div 2

tutorialHalfHeight(e) ==
    CASE e.type = "Ball" -> TutorialBallDefRadius
      [] e.type = "Paddle" -> TutorialPaddleDefHeight \div 2
      [] OTHER -> TutorialBrickDefHeight \div 2

tutorialLeft(e) == e.x - tutorialHalfWidth(e)
tutorialRight(e) == e.x + tutorialHalfWidth(e)
tutorialTop(e) == e.y - tutorialHalfHeight(e)
tutorialBottom(e) == e.y + tutorialHalfHeight(e)

\* the tutorial's Ball::update: shape.move(velocity); solveBoundCollisions().
\* Below the window's bottom the ball of p09 and p10 is sent up and the ball
\* of p11 is marked destroyed.
tutorialBallUpdate(b, ver) ==
    LET c == [b EXCEPT !.x = b.x + b.vx, !.y = b.y + b.vy]
        c1 == IF tutorialLeft(c) < 0
              THEN [c EXCEPT !.vx = TutorialBallDefVelocity]
              ELSE IF tutorialRight(c) > wndWidth
                   THEN [c EXCEPT !.vx = -TutorialBallDefVelocity]
                   ELSE c
    IN IF tutorialTop(c1) < 0
       THEN [c1 EXCEPT !.vy = TutorialBallDefVelocity]
       ELSE IF tutorialBottom(c1) > wndHeight
            THEN IF ver = "p11"
                 THEN [c1 EXCEPT !.destroyed = TRUE]
                 ELSE [c1 EXCEPT !.vy = -TutorialBallDefVelocity]
            ELSE c1

\* the tutorial's Paddle::processPlayerInput
tutorialProcessPlayerInput(p, keys) ==
    IF "Left" \in keys /\ tutorialLeft(p) > 0
    THEN [p EXCEPT !.vx = -TutorialPaddleDefVelocity]
    ELSE IF "Right" \in keys /\ tutorialRight(p) < wndWidth
         THEN [p EXCEPT !.vx = TutorialPaddleDefVelocity]
         ELSE [p EXCEPT !.vx = 0]

\* the tutorial's Paddle::update: processPlayerInput(); shape.move(velocity)
tutorialPaddleUpdate(p, keys) ==
    LET c == tutorialProcessPlayerInput(p, keys)
    IN [c EXCEPT !.x = c.x + c.vx]

\* e->update() in the tutorial; Brick::update sets the brick's colour only
tutorialEntityUpdate(e, keys, ver) ==
    CASE e.type = "Ball" -> tutorialBallUpdate(e, ver)
      [] e.type = "Paddle" -> tutorialPaddleUpdate(e, keys)
      [] OTHER -> e

\* the tutorial's Manager::update: for(auto& e : entities) e->update()
RECURSIVE tutorialUpdateFrom(_, _, _, _)
tutorialUpdateFrom(vector, hp, keys, ver) ==
    IF vector = <<>> THEN hp
    ELSE tutorialUpdateFrom(Tail(vector),
             [hp EXCEPT ![Head(vector)] = tutorialEntityUpdate(hp[Head(vector)], keys, ver)],
             keys, ver)

tutorialUpdate(m, keys, ver) == tutorialUpdateFrom(m.entities, m.heap, keys, ver)

\* the tutorial's isIntersecting
tutorialIsIntersecting(mA, mB) ==
    /\ tutorialRight(mA) >= tutorialLeft(mB)
    /\ tutorialLeft(mA) <= tutorialRight(mB)
    /\ tutorialBottom(mA) >= tutorialTop(mB)
    /\ tutorialTop(mA) <= tutorialBottom(mB)

\* the tutorial's solvePaddleBallCollision: the ball after the call
tutorialSolvePaddleBallCollision(mPaddle, mBall) ==
    IF ~tutorialIsIntersecting(mPaddle, mBall) THEN mBall
    ELSE [mBall EXCEPT !.vy = -TutorialBallDefVelocity,
                       !.vx = IF mBall.x < mPaddle.x
                              THEN -TutorialBallDefVelocity
                              ELSE TutorialBallDefVelocity]

\* the tutorial's solveBrickBallCollision: brick and ball after the call.
\* p09 and p10 mark the brick destroyed at once, p11 when its requiredHits
\* are used up.
tutorialSolveBrickBallCollision(mBrick, mBall, ver) ==
    IF ~tutorialIsIntersecting(mBrick, mBall)
    THEN [brick |-> mBrick, ball |-> mBall]
    ELSE LET hits == IF ver = "p11" THEN mBrick.hitsRequired - 1
                     ELSE mBrick.hitsRequired
             brick1 == [mBrick EXCEPT !.hitsRequired = hits,
                           !.destroyed = IF ver = "p11" THEN (hits <= 0 \/ @) ELSE TRUE]
             oLeft == tutorialRight(mBall) - tutorialLeft(mBrick)
             oRight == tutorialRight(mBrick) - tutorialLeft(mBall)
             oTop == tutorialBottom(mBall) - tutorialTop(mBrick)
             oBottom == tutorialBottom(mBrick) - tutorialTop(mBall)
             fromLeft == Abs(oLeft) < Abs(oRight)
             fromTop == Abs(oTop) < Abs(oBottom)
             minX == IF fromLeft THEN oLeft ELSE oRight
             minY == IF fromTop THEN oTop ELSE oBottom
         IN [brick |-> brick1,
             ball |-> IF Abs(minX) < Abs(minY)
                      THEN [mBall EXCEPT !.vx = IF fromLeft
                                                THEN -TutorialBallDefVelocity
                                                ELSE TutorialBallDefVelocity]
                      ELSE [mBall EXCEPT !.vy = IF fromTop
                                                THEN -TutorialBallDefVelocity
                                                ELSE TutorialBallDefVelocity]]

\* forEach<Brick> inside forEach<Ball>
RECURSIVE tutorialBricksPass(_, _, _, _)
tutorialBricksPass(hp, mBall, bricks, ver) ==
    IF bricks = <<>> THEN hp
    ELSE LET r == tutorialSolveBrickBallCollision(hp[Head(bricks)], hp[mBall], ver)
         IN tutorialBricksPass([hp EXCEPT ![Head(bricks)] = r.brick, ![mBall] = r.ball],
                               mBall, Tail(bricks), ver)

\* forEach<Paddle> inside forEach<Ball>
RECURSIVE tutorialPaddlesPass(_, _, _)
tutorialPaddlesPass(hp, mBall, paddles) ==
    IF paddles = <<>> THEN hp
    ELSE tutorialPaddlesPass(
             [hp EXCEPT ![mBall] = tutorialSolvePaddleBallCollision(hp[Head(paddles)], hp[mBall])],
             mBall, Tail(paddles))

\* forEach<Ball>: every brick, then every paddle, against the ball
RECURSIVE tutorialCollisions(_, _, _, _)
tutorialCollisions(m, hp, balls, ver) ==
    IF balls = <<>> THEN hp
    ELSE LET hp1 == tutorialBricksPass(hp, Head(balls), getAll(m, "Brick"), ver)
             hp2 == tutorialPaddlesPass(hp1, Head(balls), getAll(m, "Paddle"))
         IN tutorialCollisions(m, hp2, Tail(balls), ver)

\* the game part of a frame: update, collisions, removal of the destroyed
tutorialPlay(m, keys, ver) ==
    LET m1 == [m EXCEPT !.heap = tutorialUpdate(m, keys, ver)]
        m2 == [m1 EXCEPT !.heap = tutorialCollisions(m1, m1.heap, getAll(m1, "Ball"), ver)]
    IN refresh(m2)

\* the entities of the tutorial's Game::restart, with the last brick of its
\* grid of 44 (iX = 10, iY = 3: x = 22 + 11 * 63, y = 5 * 23, requiredHits
\* 1 + 30 % 3): brick, ball and paddle
tutorialCreateEntities(m, ptr) ==
    LET m1 == create(m, "Brick", ptr, TutorialBrick(715, 115, 1))
        m2 == create(m1, "Ball", ptr + 1, TutorialBall(wndWidth \div 2, wndHeight \div 2))
    IN create(m2, "Paddle", ptr + 2, TutorialPaddle(wndWidth \div 2, wndHeight - 50))

\* the tutorial's Game::restart: p10 and p11 clear the manager and create the
\* entities; p09 appends the bricks to those it has and assigns a new ball
\* and a new paddle to its members
tutorialRestart(m, ptr, ver) ==
    IF ver = "p09"
    THEN LET m1 == create(m, "Brick", ptr, TutorialBrick(715, 115, 1))
             mball == getSingleEntity(m, "Ball")
             mpaddle == getSingleEntity(m, "Paddle")
         IN [m1 EXCEPT !.heap[mball] = TutorialBall(wndWidth \div 2, wndHeight \div 2),
                       !.heap[mpaddle] = TutorialPaddle(wndWidth \div 2, wndHeight - 50)]
    ELSE tutorialCreateEntities(clear(m), ptr)

\* variant: the last frame's key is not looked at
togglePause_held(st, p, last) ==
    IF p
    THEN IF st = "Paused" THEN "InProgress"
         ELSE IF st = "InProgress" THEN "Paused" ELSE st
    ELSE st

\* the P key in Game::run: a press that was not there in the last frame
\* toggles between Paused and InProgress
togglePause(st, p, last) ==
    IF p /\ ~last
    THEN IF st = "Paused" THEN "InProgress"
         ELSE IF st = "InProgress" THEN "Paused" ELSE st
    ELSE st

\* variant: game over only below zero
noLivesLeft_below(lives) == lives < 0

\* p11's test for game over: if(remainingLives <= 0)
noLivesLeft(lives) == lives <= 0

\* states of a tutorial game: after main()'s restart(), and in play.  With
\* P pressed in the first frame and the one brick never touched, the ball
\* is about to leave through the bottom after 110 frames if Left was pressed
\* once; it is about to meet the brick after 152 frames if no key was
\* pressed; and the paddle is two pixels from the left border after 46
\* frames of Left.  (ball, paddle, state, balls lost before)
TutorialStarts ==
    {[ball |-> TutorialBall(400, 300), paddle |-> TutorialPaddle(400, 550),
      state |-> "Paused", lost |-> 0]}
    \cup {[ball |-> [TutorialBall(496, 588) EXCEPT !.vx = 8, !.vy = 8],
           paddle |-> TutorialPaddle(392, 550),
           state |-> "InProgress", lost |-> n] : n \in 0..2}
    \cup {[ball |-> TutorialBall(752, 140), paddle |-> TutorialPaddle(400, 550),
           state |-> "InProgress", lost |-> 0]}
    \cup {[ball |-> [TutorialBall(32, 76) EXCEPT !.vy = 8],
           paddle |-> [TutorialPaddle(32, 550) EXCEPT !.vx = -8],
           state |-> "InProgress", lost |-> 0]}

\* main() of a tutorial version: Game game; game.restart(); game.run()
InitTutorial ==
    /\ version \in TutorialVersions
    /\ \E s \in TutorialStarts :
          /\ (s.lost > 0 => version = "p11")
          /\ LET m0 == [entities |-> <<>>, groupedEntities |-> EmptyGroups, heap |-> <<>>]
                 m1 == create(m0, "Brick", 1, TutorialBrick(715, 115, 1))
                 m2 == create(m1, "Ball", 2, s.ball)
                 m3 == create(m2, "Paddle", 3, s.paddle)
             IN /\ entities = m3.entities
                /\ groupedEntities = m3.groupedEntities
                /\ heap = m3.heap
          /\ state = s.state
          /\ remainingLives = IF version = "p11" THEN 3 - s.lost ELSE 0
    /\ nextId = 4
    /\ passes = 0
    /\ op = Call("Game", "none", 0, <<>>)
    /\ pc = [t \in Threads |-> IF t = "main" THEN "run" ELSE "none"]
    /\ block = "none"
    /\ mtx = "none"
    /\ AImtx = "none"
    /\ readyForupdate = FALSE
    /\ updateDone = FALSE
    /\ ifGamePaused = FALSE
    /\ timeSeconds = 0
    /\ totalLives = 0
    /\ gamescore = 0
    /\ frames = 0
    /\ requests = 0
    /\ pausePressedLastFrame = FALSE

\* one iteration of the tutorial's Game::run with the keys P (p), R (r) and
\* the arrow keys held: the pause toggle, the restart, and, when the game is
\* on, p11's new ball and lost life, victory and game over, and the game
\* part of the frame.  (ret: the state after the P key; log: p, r)
TutorialFrame(p, r, keys) ==
    /\ pc["main"] = "run"
    /\ frames < MaxTutorialFrames
    /\ LET st1 == togglePause(state, p, pausePressedLastFrame)
           m1 == IF r THEN tutorialRestart(Store, nextId, version) ELSE Store
           st2 == IF r THEN "Paused" ELSE st1
           lives2 == IF r /\ version = "p11" THEN 3 ELSE remainingLives
           ptr2 == IF r THEN nextId + (IF version = "p09" THEN 1 ELSE 3) ELSE nextId
           on == IF version = "p11" THEN st2 = "InProgress" ELSE st2 # "Paused"
           spawn == version = "p11" /\ on /\ getAll(m1, "Ball") = <<>>
           m3 == IF spawn
                 THEN create(m1, "Ball", ptr2,
                             TutorialBall(wndWidth \div 2, wndHeight \div 2))
                 ELSE m1
           lives3 == IF spawn THEN lives2 - 1 ELSE lives2
           st3 == IF version = "p11" /\ on /\ getAll(m3, "Brick") = <<>>
                  THEN "Victory" ELSE st2
           st4 == IF version = "p11" /\ on /\ noLivesLeft(lives3)
                  THEN "GameOver" ELSE st3
       IN /\ SetStore(IF on THEN tutorialPlay(m3, keys, version) ELSE m3)
          /\ nextId' = IF spawn THEN ptr2 + 1 ELSE ptr2
          /\ state' = st4
          /\ remainingLives' = lives3
          /\ op' = Call("run", version, st1, <<p, r>>)
    /\ pausePressedLastFrame' = p
    /\ frames' = frames + 1
    /\ UNCHANGED <<passes, pc, block, mtx, AImtx, readyForupdate, updateDone,
                   ifGamePaused, timeSeconds, totalLives, gamescore, requests,
                   version>>

\* Escape: break, run() returns and main() ends
TutorialExit ==
    /\ pc["main"] = "run"
    /\ pc' = [pc EXCEPT !["main"] = "exited"]
    /\ op' = Call("break", version, 0, <<>>)
    /\ UNCHANGED <<entities, groupedEntities, heap, nextId, passes, block, mtx,
                   AImtx, readyForupdate, updateDone, state, ifGamePaused,
                   timeSeconds, totalLives, gamescore, frames, requests,
                   tutorialVars>>

NextTutorial ==
    \/ \E p \in BOOLEAN, r \in BOOLEAN, keys \in SUBSET Keys : TutorialFrame(p, r, keys)
    \/ TutorialExit

SpecTutorial == InitTutorial /\ [][NextTutorial]_vars

(***************************************************************************)
(* The bricks over the frames of the engine loop (game.hpp 246-436).  The  *)
(* store holds createEntities' two kinds of brick in the two leftmost      *)
(* columns; the ball and the bullets act on them through the resolvers'    *)
(* hits, and the ball through its drops.  A frame in play is an update     *)
(* pass followed by the collisions, the scoring and the refresh; a frame   *)
(* with the ball held on the paddle is an update pass and a refresh.  The  *)
(* loop runs until the game is lost or the last brick is gone.             *)
(***************************************************************************)
BrickIds == {1, 2}

InitBricks ==
    /\ LET m0 == [entities |-> <<>>, groupedEntities |-> EmptyGroups, heap |-> <<>>]
           m1 == create(m0, "Brick", 1, NewBrick(68, 52, 1, FALSE))
           m2 == create(m1, "Brick", 2, NewBrick(134, 52, 3, FALSE))
       IN /\ entities = m2.entities
          /\ groupedEntities = m2.groupedEntities
          /\ heap = m2.heap
          /\ nextId = 3
    /\ passes = 0
    /\ op = Call("Game", "none", 0, <<>>)
    /\ pc = [t \in Threads |-> IF t = "main" THEN "top" ELSE "none"]
    /\ block = "none"
    /\ mtx = "none"
    /\ AImtx = "none"
    /\ readyForupdate = FALSE
    /\ updateDone = FALSE
    /\ state = "inprocess"
    /\ ifGamePaused = FALSE
    /\ timeSeconds = RestartSeconds
    /\ totalLives = 3
    /\ gamescore = 0
    /\ frames = 0
    /\ requests = 0
    /\ version = "final"
    /\ pausePressedLastFrame = FALSE
    /\ remainingLives = 0

bricksRest == <<nextId, passes, block, mtx, AImtx, readyForupdate, updateDone,
                ifGamePaused, timeSeconds, frames, requests, tutorialVars>>

\* the update pass and the refresh of the newlife block and of the launch
\* block (game.hpp 286-336): neither block adds to gamescore
passAndRefresh(m) ==
    LET r == update(m, {})
    IN refresh([m EXCEPT !.heap = r.heap])

\* the hits of a collision pass on the bricks in hits
RECURSIVE hitBricks(_, _, _)
hitBricks(hp, vector, hits) ==
    IF vector = <<>> THEN hp
    ELSE LET mbrick == Head(vector)
             hp1 == IF mbrick \in hits /\ ~isFlying(hp[mbrick])
                    THEN [hp EXCEPT ![mbrick] = hitBrick(hp[mbrick])] ELSE hp
         IN hitBricks(hp1, Tail(vector), hits)

\* the head of a frame in which the ball has dropped (game.hpp 249-267): a
\* life is lost, and with lives left the newlife block is next
BricksDrop ==
    /\ pc["main"] = "top"
    /\ state = "inprocess"
    /\ getAll(Store, "Brick") # <<>>
    /\ totalLives' = totalLives - 1
    /\ state' = IF 0 >= totalLives' THEN "lost" ELSE "newlife"
    /\ op' = Call("drop", "none", 0, <<>>)
    /\ UNCHANGED <<entities, groupedEntities, heap, pc, gamescore, bricksRest>>

\* the newlife block of a frame with the ball held on the paddle (game.hpp
\* 286-308)
BricksNewlife ==
    /\ pc["main"] = "top"
    /\ state = "newlife"
    /\ getAll(Store, "Brick") # <<>>
    /\ SetStore(passAndRefresh(Store))
    /\ op' = Call("newlife", "none", 0, <<>>)
    /\ pc' = [pc EXCEPT !["main"] = "launch"]
    /\ UNCHANGED <<state, totalLives, gamescore, bricksRest>>

\* the rest of that frame: with Space held the launch block runs (game.hpp
\* 310-336) and the spawned thread puts the game in play
BricksLaunch(space) ==
    /\ pc["main"] = "launch"
    /\ IF space
       THEN /\ SetStore(passAndRefresh(Store))
            /\ state' = "inprocess"
            /\ op' = Call("launch", "none", 0, <<>>)
       ELSE /\ UNCHANGED <<entities, groupedEntities, heap, state>>
            /\ op' = Call("held", "none", 0, <<>>)
    /\ pc' = [pc EXCEPT !["main"] = "top"]
    /\ UNCHANGED <<totalLives, gamescore, bricksRest>>

\* the update pass of a frame in play (game.hpp 370-381)
BricksUpdate ==
    /\ pc["main"] = "top"
    /\ state = "inprocess"
    /\ getAll(Store, "Brick") # <<>>
    /\ LET r == update(Store, {})
       IN /\ SetStore([Store EXCEPT !.heap = r.heap])
          /\ op' = Call("update", "none", 0, r.log)
    /\ pc' = [pc EXCEPT !["main"] = "collide"]
    /\ UNCHANGED <<state, totalLives, gamescore, bricksRest>>

\* the rest of the frame in play (game.hpp 384-436): the collision passes hit
\* the bricks in hits, every brick marked destroyed is scored, and the store
\* is refreshed (log: the bricks the refresh removed)
BricksResolve(hits) ==
    /\ pc["main"] = "collide"
    /\ LET hp1 == hitBricks(heap, getAll(Store, "Brick"), hits)
           m1 == [Store EXCEPT !.heap = hp1]
       IN /\ gamescore' = gamescore + scored(hp1, getAll(m1, "Brick"))
          /\ SetStore(refresh(m1))
          /\ op' = Call("resolve", "none", 0,
                        SelectSeq(entities, LAMBDA p : hp1[p].destroyed))
    /\ pc' = [pc EXCEPT !["main"] = "top"]
    /\ UNCHANGED <<state, totalLives, bricksRest>>

NextBricks ==
    \/ BricksDrop
    \/ BricksNewlife
    \/ \E space \in BOOLEAN : BricksLaunch(space)
    \/ BricksUpdate
    \/ \E hits \in SUBSET BrickIds : BricksResolve(hits)

\* the frames' steps as pc shows them
BricksBlockStep ==
    /\ pc["main"] = "top"
    /\ state \in {"inprocess", "newlife"}
    /\ getAll(Store, "Brick") # <<>>
    /\ At("main", IF state = "inprocess" THEN "collide" ELSE "launch")

BricksRestStep == pc["main"] \in {"collide", "launch"} /\ At("main", "top")

\* the engine loop is a while(true) and the update thread serves every
\* request: a block that can run does run, and so does the rest of its
\* frame.  The player's key and the ball's drop are under no such condition.
SpecBricks ==
    /\ InitBricks
    /\ [][NextBricks]_vars
    /\ WF_pc(BricksBlockStep)
    /\ WF_pc(BricksRestStep)

(***************************************************************************)
(* The ball over the frames of the engine loop.  The store holds the ball  *)
(* alone: createEntities' ball in play, or the ball of a new life held on  *)
(* the paddle at its first place.  A held ball follows the keys frame      *)
(* after frame (game.hpp 286-308), Space launches it (310-336), and a ball *)
(* in play is moved by the update passes (370-381) until it has dropped.   *)
(***************************************************************************)
InitBall ==
    /\ \E held \in BOOLEAN :
          LET m0 == [entities |-> <<>>, groupedEntities |-> EmptyGroups, heap |-> <<>>]
              ball == IF held
                      THEN NewBall(wndWidth \div 2, wndHeight - 50 - 2 * BallDefRadius,
                                   TRUE, 2, -2)
                      ELSE NewBall(wndWidth \div 2, wndHeight \div 2, FALSE, -2, 2)
              m1 == create(m0, "Ball", 1, ball)
          IN /\ entities = m1.entities
             /\ groupedEntities = m1.groupedEntities
             /\ heap = m1.heap
             /\ state = IF held THEN "newlife" ELSE "inprocess"
    /\ nextId = 2
    /\ passes = 0
    /\ op = Call("Game", "none", 0, <<>>)
    /\ pc = [t \in Threads |-> IF t = "main" THEN "top" ELSE "none"]
    /\ block = "none"
    /\ mtx = "none"
    /\ AImtx = "none"
    /\ readyForupdate = FALSE
    /\ updateDone = FALSE
    /\ ifGamePaused = FALSE
    /\ timeSeconds = RestartSeconds
    /\ totalLives = 3
    /\ gamescore = 0
    /\ frames = 0
    /\ requests = 0
    /\ version = "final"
    /\ pausePressedLastFrame = FALSE
    /\ remainingLives = 0

ballRest == <<nextId, pc, block, mtx, AImtx, readyForupdate, updateDone,
              ifGamePaused, timeSeconds, totalLives, gamescore, frames, requests,
              tutorialVars>>

\* the newlife block (game.hpp 286-308): the held ball follows the keys, the
\* update pass and the refresh follow
newlifeBlock(m, keys) ==
    LET mball == getSingleEntity(m, "Ball")
        m1 == [m EXCEPT !.heap[mball] = solveBallPaddleRelativeMotion(@, keys)]
    IN passAndRefresh(m1)

\* the launch block (game.hpp 310-336)
launchBlock(m) ==
    LET ballentity == getSingleEntity(m, "Ball")
        m1 == [m EXCEPT !.heap[ballentity].vx = -2, !.heap[ballentity].vy = 2,
                        !.heap[ballentity].updateRequired = FALSE]
    IN passAndRefresh(m1)

\* a frame with the ball held on the paddle and Space up
BallHold(keys) ==
    /\ state = "newlife"
    /\ SetStore(newlifeBlock(Store, keys))
    /\ op' = Call("hold", "none", 0, <<>>)
    /\ UNCHANGED <<state, passes, ballRest>>

\* a frame with the ball held on the paddle and Space down: the newlife block,
\* the launch block, and the spawned thread puts the game in play
BallLaunch(keys) ==
    /\ state = "newlife"
    /\ SetStore(launchBlock(newlifeBlock(Store, keys)))
    /\ state' = "inprocess"
    /\ op' = Call("launch", "none", 0, <<>>)
    /\ UNCHANGED <<passes, ballRest>>

\* the update pass of a frame in play whose ball has not dropped
BallPass ==
    /\ state = "inprocess"
    /\ passes < MaxBallPasses
    /\ ~checkBallDropped(Store)
    /\ LET r == update(Store, {})
       IN /\ SetStore([Store EXCEPT !.heap = r.heap])
          /\ op' = Call("update", "none", 0, r.log)
    /\ passes' = passes + 1
    /\ UNCHANGED <<state, ballRest>>

NextBall ==
    \/ \E keys \in SUBSET Keys : BallHold(keys)
    \/ \E keys \in SUBSET Keys : BallLaunch(keys)
    \/ BallPass

SpecBall == InitBall /\ [][NextBall]_vars

(***************************************************************************)
(* Properties of the store.                                                *)
(***************************************************************************)
Live(p) == p \in DOMAIN heap /\ heap[p].type \in Types

Occurrences(vector, p) == Cardinality({i \in 1..Len(vector) : vector[i] = p})

Grouped == UNION {SeqToSet(groupedEntities[k]) : k \in DOMAIN groupedEntities}

\* C1: after Manager::refresh() has returned, no entity whose destroyed flag
\* is set remains in the owning vector or in any type group (and none of the
\* pointers left refers to a released object), whatever calls came before.
C1_RefreshRemovesDestroyed ==
    op.name = "refresh" =>
        \A p \in SeqToSet(entities) \cup Grouped : Live(p) /\ ~heap[p].destroyed

\* a refresh that dropped two entities and kept one
C1_Witness ==
    /\ op.name = "refresh"
    /\ Len(op.log) >= 2
    /\ entities # <<>>

\* C2: in every reachable state the type groups and the owning vector are in
\* lockstep: every pointer of a group is a pointer of the owning vector to a
\* live object, and every entity of the owning vector is there once and is
\* once in the group of its own type and in no other group.
C2_Lockstep ==
    /\ \A p \in Grouped : p \in SeqToSet(entities) /\ Live(p)
    /\ \A p \in SeqToSet(entities) :
          /\ Live(p)
          /\ Occurrences(entities, p) = 1
          /\ \A T \in Types :
                Occurrences(getAll(Store, T), p) = IF T = heap[p].type THEN 1 ELSE 0

\* an entity has been released, and the store holds two entities of different
\* types, one of them marked destroyed and not yet refreshed
C2_Witness ==
    /\ \E p \in DOMAIN heap : heap[p] = Freed
    /\ \E p, q \in SeqToSet(entities) :
          /\ heap[p].type # heap[q].type
          /\ heap[p].destroyed
          /\ ~heap[q].destroyed

\* C3: when create<T> has returned, the new entity is the last element of
\* getAll<T>() and the last element of the owning vector.
C3_CreateAppends ==
    op.name = "create" =>
        /\ getAll(Store, op.T) # <<>>
        /\ getAll(Store, op.T)[Len(getAll(Store, op.T))] = op.ret
        /\ entities # <<>>
        /\ entities[Len(entities)] = op.ret
        /\ heap[op.ret].type = op.T

\* a create<T> into a group that already held a T, after an entity was
\* released by refresh or clear
C3_Witness ==
    /\ op.name = "create"
    /\ Len(getAll(Store, op.T)) >= 2
    /\ \E p \in DOMAIN heap : heap[p] = Freed

\* C4: when clear() has returned, getAll<T>() is empty for every type T and
\* the owning vector is empty.
C4_ClearEmpties ==
    op.name = "clear" =>
        /\ entities = <<>>
        /\ \A T \in Types : getAll(Store, T) = <<>>

\* a clear of a store that held three entities, one of them marked destroyed
C4_Witness ==
    /\ op.name = "clear"
    /\ Len(op.log) >= 3
    /\ op.ret = 1

\* C5: forEach<T> calls the visitor once on every T of the store, in the
\* order the entities were created in (ids grow with creation), also after
\* refresh calls have removed entities created before, between or after them.
C5_ForEachInCreationOrder ==
    op.name = "forEach" =>
        /\ op.log = SelectSeq(entities, LAMBDA p : heap[p].type = op.T)
        /\ \A i, j \in 1..Len(op.log) : i < j => op.log[i] < op.log[j]

\* a forEach that visited two entities between whose creations a third was
\* created, which a refresh or clear has removed since
C5_Witness ==
    /\ op.name = "forEach"
    /\ Len(op.log) = 2
    /\ \E p \in DOMAIN heap : heap[p] = Freed /\ op.log[1] < p /\ p < op.log[2]

BoxesMeet(mA, mB) ==
    /\ (left(mA)..right(mA)) \cap (left(mB)..right(mB)) # {}
    /\ (top(mA)..bottom(mA)) \cap (top(mB)..bottom(mB)) # {}

\* the brick and the ball of the solveBallBrickCollision call op records
CallBrick(call) == call.log[1]
CallBall(call) == call.log[2]
Resolves(mbrick, mball) == ~mbrick.flingFlag /\ BoxesMeet(mbrick, mball)

\* C7: for any two shapes A and B, isIntersecting(A, B) is true exactly when
\* A.right >= B.left, A.left <= B.right, A.bottom >= B.top and
\* A.top <= B.bottom, which is exactly when the closed boxes share a point:
\* boxes that only touch intersect, boxes apart on either axis do not.
C7_IsIntersectingClosed ==
    op.name = "isIntersecting" =>
        LET mA == heap[op.log[1]]
            mB == heap[op.log[2]]
        IN /\ op.ret = (/\ right(mA) >= left(mB)
                        /\ left(mA) <= right(mB)
                        /\ bottom(mA) >= top(mB)
                        /\ top(mA) <= bottom(mB))
           /\ op.ret = BoxesMeet(mA, mB)
           /\ (right(mA) < left(mB) \/ right(mB) < left(mA)) => op.ret = FALSE
           /\ (bottom(mA) < top(mB) \/ bottom(mB) < top(mA)) => op.ret = FALSE

\* the ball's right edge on the brick's left edge and nothing more: intersecting
C7_Witness ==
    /\ op.name = "isIntersecting"
    /\ op.ret = TRUE
    /\ heap[op.log[1]].type = "Ball"
    /\ heap[op.log[2]].type = "Brick"
    /\ right(heap[op.log[1]]) = left(heap[op.log[2]])

\* C8: solveBallBrickCollision called on a brick that is flying, or on a brick
\* and a ball that do not intersect, changes nothing: the brick's hitsRequired
\* and fling flag and both components of the ball's velocity stay as they were.
C8_NoOpWhenFlyingOrApart ==
    [][(/\ op'.name = "solveBallBrickCollision"
        /\ ~Resolves(heap[CallBrick(op')], heap[CallBall(op')]))
       => /\ heap'[CallBrick(op')].hitsRequired = heap[CallBrick(op')].hitsRequired
          /\ heap'[CallBrick(op')].flingFlag = heap[CallBrick(op')].flingFlag
          /\ heap'[CallBall(op')].vx = heap[CallBall(op')].vx
          /\ heap'[CallBall(op')].vy = heap[CallBall(op')].vy
          /\ heap' = heap]_vars

\* a call on a flying brick that the ball is inside of
C8_Witness ==
    /\ op.name = "solveBallBrickCollision"
    /\ op.ret = "flying"
    /\ BoxesMeet(heap[CallBrick(op)], heap[CallBall(op)])
    /\ heap[CallBrick(op)].hitsRequired = 0

\* C9: when solveBallBrickCollision resolves a collision (brick not flying,
\* shapes intersecting), hitsRequired decreases by exactly one, the brick is
\* flung exactly when hitsRequired has reached zero, and the destroyed flag is
\* not set: a refresh right after the call leaves the brick in the store.
C9_HitDecrementsAndFlings ==
    [][/\ (/\ op'.name = "solveBallBrickCollision"
           /\ Resolves(heap[CallBrick(op')], heap[CallBall(op')]))
          => /\ heap'[CallBrick(op')].hitsRequired
                    = heap[CallBrick(op')].hitsRequired - 1
             /\ heap'[CallBrick(op')].flingFlag
                    = (heap'[CallBrick(op')].hitsRequired = 0)
             /\ heap'[CallBrick(op')].destroyed = heap[CallBrick(op')].destroyed
             /\ ~heap'[CallBrick(op')].destroyed
       /\ (/\ op.name = "solveBallBrickCollision"
           /\ op.ret \in {"x", "y"}
           /\ op'.name = "refresh")
          => /\ CallBrick(op) \in SeqToSet(entities')
             /\ CallBrick(op) \in SeqToSet(getAll(Store, "Brick")')]_vars

\* a refresh right after the hit that flung a brick of one hit: the brick is
\* still in the store, flying
C9_Witness ==
    /\ op.name = "refresh"
    /\ op.log = <<>>
    /\ \E b \in SeqToSet(entities) :
          /\ heap[b].type = "Brick"
          /\ heap[b].flingFlag
          /\ heap[b].hitsRequired = 0
          /\ heap[b].strength = 1
          /\ ~heap[b].destroyed

MinOf(a, b) == IF a <= b THEN a ELSE b

\* C10: when solveBallBrickCollision resolves a collision it takes the
\* horizontal branch exactly when the smaller of |overlapLeft|, |overlapRight|
\* is strictly smaller than the smaller of |overlapTop|, |overlapBottom|, and
\* the vertical branch otherwise; the velocity component of the other axis is
\* left as it was.
C10_AxisBySmallerOverlap ==
    [][(/\ op'.name = "solveBallBrickCollision"
        /\ Resolves(heap[CallBrick(op')], heap[CallBall(op')]))
       => LET mbrick == heap[CallBrick(op')]
              mball == heap[CallBall(op')]
              smallerX == MinOf(Abs(right(mball) - left(mbrick)),
                                Abs(right(mbrick) - left(mball)))
              smallerY == MinOf(Abs(bottom(mball) - top(mbrick)),
                                Abs(bottom(mbrick) - top(mball)))
          IN /\ op'.ret \in {"x", "y"}
             /\ (op'.ret = "x") = (smallerX < smallerY)
             /\ op'.ret = "x" => heap'[CallBall(op')].vy = mball.vy
             /\ op'.ret = "y" => heap'[CallBall(op')].vx = mball.vx]_vars

\* a resolved collision whose two smaller overlaps are equal, taken on the
\* vertical branch, which turned the ball's vertical velocity
C10_Witness ==
    /\ op.name = "solveBallBrickCollision"
    /\ op.ret = "y"
    /\ LET mbrick == heap[CallBrick(op)]
           mball == heap[CallBall(op)]
       IN /\ MinOf(Abs(right(mball) - left(mbrick)), Abs(right(mbrick) - left(mball)))
               = MinOf(Abs(bottom(mball) - top(mbrick)), Abs(bottom(mbrick) - top(mball)))
          /\ mball.vy = 2
          /\ mball.y > mbrick.y

\* C11: when solveBallBrickCollision resolves a collision, the velocity
\* component of the branch taken ends with the sign that moves the ball away
\* from the brick, whatever its sign before: minus its magnitude when the ball
\* came from the left (from the top), its magnitude when it came from the
\* right (from the bottom).
C11_VelocityAwayFromBrick ==
    [][(/\ op'.name = "solveBallBrickCollision"
        /\ Resolves(heap[CallBrick(op')], heap[CallBall(op')]))
       => LET mbrick == heap[CallBrick(op')]
              mball == heap[CallBall(op')]
              after == heap'[CallBall(op')]
              fromLeft == Abs(right(mball) - left(mbrick))
                              < Abs(right(mbrick) - left(mball))
              fromTop == Abs(bottom(mball) - top(mbrick))
                              < Abs(bottom(mbrick) - top(mball))
          IN /\ op'.ret = "x" =>
                   after.vx = IF fromLeft THEN -Abs(mball.vx) ELSE Abs(mball.vx)
             /\ op'.ret = "y" =>
                   after.vy = IF fromTop THEN -Abs(mball.vy) ELSE Abs(mball.vy)]_vars

\* C12: when solveBallBrickCollision resolves a collision on a brick that is
\* not flying and has hitsRequired = 1, the brick is flung and exactly one of
\* the two components of the ball's velocity (both nonzero) is negated, the
\* other left as it was, for every intersecting position and velocity.
C12_ExactlyOneAxisFlipped ==
    [][(/\ op'.name = "solveBallBrickCollision"
        /\ Resolves(heap[CallBrick(op')], heap[CallBall(op')])
        /\ heap[CallBrick(op')].hitsRequired = 1
        /\ heap[CallBall(op')].vx # 0
        /\ heap[CallBall(op')].vy # 0)
       => LET mball == heap[CallBall(op')]
              after == heap'[CallBall(op')]
          IN /\ heap'[CallBrick(op')].flingFlag
             /\ \/ after.vx = -mball.vx /\ after.vy = mball.vy
                \/ after.vy = -mball.vy /\ after.vx = mball.vx]_vars

\* the smaller horizontal and the smaller vertical overlap of a brick and a
\* ball are equal
Tie(mbrick, mball) ==
    MinOf(Abs(right(mball) - left(mbrick)), Abs(right(mbrick) - left(mball)))
        = MinOf(Abs(bottom(mball) - top(mbrick)), Abs(bottom(mbrick) - top(mball)))

\* C13, as the claim states it: a resolved collision whose two chosen overlaps
\* are equal is resolved on the horizontal branch, so that only the ball's
\* horizontal velocity may change.
C13_TieHorizontal ==
    [][(/\ op'.name = "solveBallBrickCollision"
        /\ Resolves(heap[CallBrick(op')], heap[CallBall(op')])
        /\ Tie(heap[CallBrick(op')], heap[CallBall(op')]))
       => /\ op'.ret = "x"
          /\ heap'[CallBall(op')].vy = heap[CallBall(op')].vy]_vars

\* C13, amended: a resolved collision whose two chosen overlaps are equal is
\* resolved on the vertical branch, so that only the ball's vertical velocity
\* may change.
C13_TieVertical ==
    [][(/\ op'.name = "solveBallBrickCollision"
        /\ Resolves(heap[CallBrick(op')], heap[CallBall(op')])
        /\ Tie(heap[CallBrick(op')], heap[CallBall(op')]))
       => /\ op'.ret = "y"
          /\ heap'[CallBall(op')].vx = heap[CallBall(op')].vx]_vars

\* a resolved tie at the brick's lower left corner, the ball coming from the
\* left and from the bottom and moving up: taken on the vertical branch
C13_Witness ==
    /\ op.name = "solveBallBrickCollision"
    /\ op.ret = "y"
    /\ Tie(heap[CallBrick(op)], heap[CallBall(op)])
    /\ heap[CallBall(op)].x < heap[CallBrick(op)].x
    /\ heap[CallBall(op)].y > heap[CallBrick(op)].y
    /\ heap[CallBall(op)].vy = 2
    /\ heap[CallBall(op)].vx = 2

(***************************************************************************)
(* Properties of the paddle and bullet resolvers.                          *)
(***************************************************************************)
\* the paddle (or brick) and the ball (or bullet) of the call op records
CallFirst(call) == call.log[1]
CallSecond(call) == call.log[2]

\* C14: solvePaddleBallCollision called on a paddle and a ball that do not
\* intersect leaves both components of the ball's velocity as they were (and
\* everything else).
C14_PaddleNoOpWhenApart ==
    [][(/\ op'.name = "solvePaddleBallCollision"
        /\ ~BoxesMeet(heap[CallFirst(op')], heap[CallSecond(op')]))
       => /\ heap'[CallSecond(op')].vx = heap[CallSecond(op')].vx
          /\ heap'[CallSecond(op')].vy = heap[CallSecond(op')].vy
          /\ heap' = heap]_vars

\* a call on a ball that moves down, one pixel above and left of the centre
\* of a paddle it does not touch
C14_Witness ==
    /\ op.name = "solvePaddleBallCollision"
    /\ ~BoxesMeet(heap[CallFirst(op)], heap[CallSecond(op)])
    /\ bottom(heap[CallSecond(op)]) + 1 = top(heap[CallFirst(op)])
    /\ heap[CallSecond(op)].x < heap[CallFirst(op)].x
    /\ op.ret = <<2, 2>>

\* C15: whenever solvePaddleBallCollision resolves a collision (paddle and
\* ball intersect), the ball's vertical velocity is strictly negative after
\* the call, for every vertical velocity the ball can have before it.
C15_StrictlyUpward ==
    [][(/\ op'.name = "solvePaddleBallCollision"
        /\ BoxesMeet(heap[CallFirst(op')], heap[CallSecond(op')]))
       => heap'[CallSecond(op')].vy < 0]_vars

\* C16: when solvePaddleBallCollision resolves a collision, the ball's
\* horizontal velocity becomes minus its magnitude if the ball's centre x is
\* strictly left of the paddle's centre x, and is left as it was otherwise.
C16_HorizontalByCentre ==
    [][(/\ op'.name = "solvePaddleBallCollision"
        /\ BoxesMeet(heap[CallFirst(op')], heap[CallSecond(op')]))
       => LET mpaddle == heap[CallFirst(op')]
              mball == heap[CallSecond(op')]
          IN heap'[CallSecond(op')].vx
                 = IF mball.x < mpaddle.x THEN -Abs(mball.vx) ELSE mball.vx]_vars

\* a resolved collision of a ball that moved right with its centre right
\* above the paddle's centre: it still moves right
C16_Witness ==
    /\ op.name = "solvePaddleBallCollision"
    /\ BoxesMeet(heap[CallFirst(op)], heap[CallSecond(op)])
    /\ heap[CallSecond(op)].x = heap[CallFirst(op)].x
    /\ op.ret[1] = 2
    /\ heap[CallSecond(op)].vx = 2

\* C17: solveBrickBulletCollision changes neither brick nor bullet when they
\* do not intersect; when they intersect, hitsRequired decreases by exactly
\* one, the brick is flung when hitsRequired has reached zero (and stays flung
\* if it was), and the bullet is marked destroyed, whatever the brick's state.
C17_BulletHit ==
    [][op'.name = "solveBrickBulletCollision"
       => LET mbrick == heap[CallFirst(op')]
              mbullet == heap[CallSecond(op')]
              brickAfter == heap'[CallFirst(op')]
              bulletAfter == heap'[CallSecond(op')]
          IN IF BoxesMeet(mbrick, mbullet)
             THEN /\ brickAfter.hitsRequired = mbrick.hitsRequired - 1
                  /\ brickAfter.flingFlag
                         = (mbrick.flingFlag \/ brickAfter.hitsRequired = 0)
                  /\ brickAfter.destroyed = mbrick.destroyed
                  /\ bulletAfter.destroyed
                  /\ bulletAfter.x = mbullet.x /\ bulletAfter.y = mbullet.y
             ELSE heap' = heap]_vars

\* a bullet that touches a brick of three hits from below: the brick has two
\* hits left and is not flung, the bullet is marked destroyed
C17_Witness ==
    /\ op.name = "solveBrickBulletCollision"
    /\ op.ret = 3
    /\ top(heap[CallSecond(op)]) = bottom(heap[CallFirst(op)])
    /\ heap[CallFirst(op)].hitsRequired = 2
    /\ ~heap[CallFirst(op)].flingFlag
    /\ heap[CallSecond(op)].destroyed

\* C18: once a brick's hitsRequired is zero it stays zero for as long as the
\* brick is in the store: no call of solveBallBrickCollision resolves a
\* collision against it, and no call of solveBrickBulletCollision changes its
\* counter, which never goes below zero.
C18_ZeroStaysZero ==
    [][\A b \in SeqToSet(entities) :
          (/\ heap[b].type = "Brick"
           /\ heap[b].hitsRequired = 0
           /\ b \in SeqToSet(entities'))
          => /\ heap'[b].hitsRequired = 0
             /\ (op'.name = "solveBallBrickCollision" /\ CallBrick(op') = b)
                    => op'.ret = "flying"]_vars

\* the stretches of the main thread that resolve collisions, refresh or draw
MainFrameWork == {"collide", "refresh", "draw"}

\* C19: the main thread never resolves collisions, refreshes or draws while
\* the update thread is inside Manager::update(); when it goes on after a
\* request, the update thread has completed exactly one update pass for
\* every request made, that one included.
C19_HandshakeOrdering ==
    /\ passes <= requests
    /\ requests <= passes + 1
    /\ pc["main"] \in MainFrameWork
           => /\ pc["update"] # "update"
              /\ passes = requests
              /\ ~updateDone

\* the main thread at its collision passes in the second frame, two requests
\* made and two update passes completed
C19_Witness ==
    /\ pc["main"] = "collide"
    /\ frames = 2
    /\ requests = 2
    /\ passes = 2

\* the threads that are inside code which reads or writes the entity store
\* (the paddle's position is the paddle entity's)
InStore ==
    {t \in Threads :
        \/ t = "main" /\ pc[t] \in {"hold", "collide", "refresh", "draw"}
        \/ t = "update" /\ pc[t] = "update"
        \/ t = "AI" /\ pc[t] \in {"predict", "walking"}}

\* the threads that are inside code which reads or writes timeSeconds
InCountdown ==
    {t \in Threads :
        \/ t = "main" /\ pc[t] = "prelude"
        \/ t = "timer" /\ pc[t] = "tick"}

\* C20: no two of the main, update, AI and timer threads are ever inside
\* code that reads or writes the entity store (the paddle's position
\* included) at the same time, nor inside code that reads or writes the
\* countdown at the same time.
C20_NoConcurrentAccess ==
    /\ Cardinality(InStore) <= 1
    /\ Cardinality(InCountdown) <= 1

\* C24: setting an entity's destroyed flag removes it from nothing: the
\* owning vector and the groups are as they were, and a forEach still visits
\* every entity of the group, the marked ones included; an entity leaves the
\* owning vector or a group only in a refresh or a clear.
C24_OnlyRefreshAndClearRemove ==
    [][/\ op'.name = "destroy"
            => entities' = entities /\ groupedEntities' = groupedEntities
       /\ op'.name = "forEach"
            => /\ op'.log = groupedEntities[hash_code(op'.T)]
               /\ entities' = entities /\ groupedEntities' = groupedEntities
       /\ op'.name \notin {"refresh", "clear"}
            => /\ SeqToSet(entities) \subseteq SeqToSet(entities')
               /\ \A k \in HashCodes :
                      SeqToSet(groupedEntities[k]) \subseteq SeqToSet(groupedEntities'[k])]_vars

\* a forEach has just visited an entity that was marked destroyed before the
\* call and is still in the owning vector and in its group
C24_Witness ==
    /\ op.name = "forEach"
    /\ \E e \in SeqToSet(op.log) :
          /\ heap[e].destroyed
          /\ e \in SeqToSet(entities)
          /\ e \in SeqToSet(groupedEntities[hash_code(op.T)])
          /\ Len(op.log) >= 2

(***************************************************************************)
(* Properties of the tutorial versions.                                    *)
(***************************************************************************)
\* C21: the paddle is clamped to the window: in every reachable state its
\* left edge is at least 0 and its right edge at most wndWidth.
C21_PaddleClamped ==
    \A e \in SeqToSet(getAll(Store, "Paddle")) :
        /\ tutorialLeft(heap[e]) >= 0
        /\ tutorialRight(heap[e]) <= wndWidth

\* the frame that has just run was on in p11: InProgress after the keys
RanInProgress(call) == call.name = "run" /\ call.ret = "InProgress" /\ ~call.log[2]

\* C22: in p11 a frame that is InProgress and starts with no ball in the
\* store creates exactly one ball and takes exactly one life; a frame that
\* is not, and does not restart, takes none; the state is GameOver after the
\* frame in which remainingLives reaches 0; and remainingLives stays within
\* 0..3.
C22_LivesPerLostBall ==
    [][(version = "p11" /\ op'.name = "run")
       => /\ (RanInProgress(op') /\ getAll(Store, "Ball") = <<>>)
                => /\ remainingLives' = remainingLives - 1
                   /\ groupedEntities'[hash_code("Ball")] = <<nextId>>
                   /\ nextId' = nextId + 1
          /\ (~(RanInProgress(op') /\ getAll(Store, "Ball") = <<>>) /\ ~op'.log[2])
                => remainingLives' = remainingLives
          /\ (remainingLives' = 0 /\ remainingLives > 0) => state' = "GameOver"
          /\ remainingLives' \in 0..3]_vars

\* p11 after the frame that took the last life: a new ball is in the store,
\* no life is left and the game is over
C22_Witness ==
    /\ version = "p11"
    /\ op.name = "run"
    /\ RanInProgress(op)
    /\ remainingLives = 0
    /\ state = "GameOver"
    /\ getAll(Store, "Ball") = <<nextId - 1>>

\* the other state of the pause toggle
Toggled(st) == IF st = "Paused" THEN "InProgress" ELSE "Paused"

\* C23: in a frame of the tutorial's loop the P key toggles the state between
\* Paused and InProgress exactly when P is down, was not down in the frame
\* before and the state is one of the two; in every other case the P key
\* leaves the state as it is (a key held over frames toggles once, and
\* GameOver and Victory are not left).
C23_PauseToggle ==
    [][op'.name = "run"
       => /\ op'.ret = IF /\ op'.log[1]
                          /\ ~pausePressedLastFrame
                          /\ state \in {"Paused", "InProgress"}
                       THEN Toggled(state)
                       ELSE state
          /\ pausePressedLastFrame' = op'.log[1]]_vars

\* P is down in a frame of a game that is over: the state is still GameOver
C23_Witness ==
    /\ op.name = "run"
    /\ op.log[1]
    /\ op.ret = "GameOver"
    /\ state = "GameOver"
    /\ pausePressedLastFrame

(***************************************************************************)
(* Properties of the bricks over the frames.                               *)
(***************************************************************************)
BrickIn(e) == e \in SeqToSet(entities)

UpdatePassRuns == op'.name \in {"update", "newlife", "launch"}

\* C25: every update pass moves a flung brick to the left, and marks it
\* destroyed once its centre is left of the window; a brick marked destroyed
\* is gone after the frame's refresh; so a flung brick is eventually removed
\* if update passes keep running; a brick that has not been flung is never
\* marked destroyed.
C25_FlungBrickRemoved ==
    /\ [](\A e \in BrickIds : (BrickIn(e) /\ ~heap[e].flingFlag) => ~heap[e].destroyed)
    /\ [][op'.name = "update" =>
             \A e \in BrickIds : (BrickIn(e) /\ heap[e].flingFlag) =>
                 /\ heap'[e].x = heap[e].x - BrickDefVelocity
                 /\ heap'[e].destroyed = (heap'[e].x < 0)]_vars
    /\ [][op'.name = "resolve" =>
             \A e \in BrickIds : (BrickIn(e) /\ heap[e].destroyed) => ~BrickIn(e)']_vars
    /\ \A e \in BrickIds :
           []<><<UpdatePassRuns>>_vars
               => ((BrickIn(e) /\ heap[e].flingFlag) ~> ~BrickIn(e))

\* the brick of the leftmost column has flown out of the window and has been
\* removed by the refresh; the other brick has not been flung and is there
C25_Witness ==
    /\ op.name = "resolve"
    /\ op.log = <<1>>
    /\ ~BrickIn(1)
    /\ BrickIn(2) /\ ~heap[2].flingFlag /\ ~heap[2].destroyed

(***************************************************************************)
(* Properties of the ball over the frames.                                 *)
(***************************************************************************)
TheBall == heap[getSingleEntity(Store, "Ball")]

\* C26: an update pass that starts with the ball's edge beyond the left, the
\* right or the top bound of the window moves the ball toward the inside on
\* that axis.
C26_BallKeptInside ==
    [][op'.name = "update" =>
          /\ left(TheBall) < 0 => TheBall'.x > TheBall.x
          /\ right(TheBall) > wndWidth => TheBall'.x < TheBall.x
          /\ top(TheBall) < 0 => TheBall'.y > TheBall.y]_vars

(***************************************************************************)
(* Properties of the handshake under a fair scheduler.                     *)
(***************************************************************************)
Requested == pc["main"] \in {"notify", "acquire", "waiting"}

Resumed == pc["main"] \in {"collide", "refresh"}

\* C27: every update request of the main thread is eventually served: the
\* update thread runs the pass the request asked for (one pass for each
\* request) and the main thread goes on with its block; an update thread
\* that waits while a request is pending is eventually woken and takes it.
C27_RequestServed ==
    /\ Requested ~> (Resumed /\ passes = requests /\ ~updateDone /\ ~readyForupdate)
    /\ (pc["update"] = "waiting" /\ readyForupdate) ~> (pc["update"] = "update")

\* the main thread goes on after its second request, both of them served
C27_Witness ==
    /\ Resumed
    /\ requests >= 2
    /\ passes = requests
    /\ ~updateDone /\ ~readyForupdate

(***************************************************************************)
(* Properties of the lives and of the lost game.                           *)
(***************************************************************************)
\* C28: manager.totalLives never drops below 0, whatever the number of
\* frames: a lost ball costs one life, once.
C28_LivesNeverNegative == totalLives >= 0

\* C30: once the game is lost it stays lost: with the last life gone the
\* state is not inprocess or newlife again, whatever keys are pressed, and no
\* frame runs the inprocess block.
C30_LostIsFinal ==
    totalLives <= 0 => (state \notin {"inprocess", "newlife"} /\ block # "inprocess")

(***************************************************************************)
(* Properties of the score.                                                *)
(***************************************************************************)
RemovedStrength(e) == IF BrickIn(e) /\ ~BrickIn(e)' THEN heap[e].strength ELSE 0

\* C29: a step that removes bricks from the store adds the strength of each
\* of them to gamescore, and gamescore changes in no other way: every brick
\* removed has been scored exactly once.
C29_RemovedBrickScoredOnce ==
    [][gamescore' = gamescore + RemovedStrength(1) + RemovedStrength(2)]_vars

====
